---- MODULE Spec2Model ----
(***************************************************************************)
(* The docker pod driver of the executor                                   *)
(* (internal/services/executor/driver/docker.go): the container runtime    *)
(* as seen through the docker client, DockerDriver.NewPod and GetPods,     *)
(* DockerPod.Stop, Remove and Exec.                                        *)
(*                                                                         *)
(* Runtime object IDs (container IDs, generated volume names) are modelled *)
(* as positive integers, a fresh one for every object created and never     *)
(* reused; the empty string of the code ("" for an unset ID or volume      *)
(* name) is 0.                                                             *)
(***************************************************************************)
EXTENDS Integers, Sequences, FiniteSets, TLC

\* ---------------------------------------------------------------- bounds
\* most containers in one PodConfig
MaxN == 2
\* most NewPod calls in one behaviour
MaxCalls == 1
\* most containers put into the runtime by somebody else
MaxForeign == 1
\* most exec sessions in one behaviour
MaxExecs == 1
MaxSessions == 2
MaxIDs == 4

PodIDs == {"p1", "p2"}
\* the pod IDs are interchangeable: NewPod call n takes one of the first n
PodIDOrder == <<"p1", "p2">>
PodIDsOf(n) == {PodIDOrder[i] : i \in {j \in DOMAIN PodIDOrder : j <= n}}
TaskIDs == {"t1"}
\* declared container names ("" = not named)
Names == {"", "db"}
\* the identity of the driver (DockerDriver.executorID) and of another one
ExecutorID == "e1"
OtherExecutorID == "e2"

\* ---------------------------------------------------------------- labels
agolaLabelKey == "agola"
agolaLabelValue == "true"
executorIDKey == "executorID"
podIDKey == "podID"
taskIDKey == "taskID"
containerIndexKey == "containerIndex"
containerNameKey == "containerName"
volumeNameKey == "volumeName"
toolboxVolumeName == "toolbox"
projectVolumeName == "project"
mainContainerName == "main"
defaultProjectDir == "/project"
InitVolumeDir == "/mnt/agola"

\* a Go map[string]string is a function on the set of its keys
NoLabels == [k \in {} |-> ""]
HasKey(m, k) == k \in DOMAIN m
MapPut(m, k, v) == [x \in (DOMAIN m) \cup {k} |-> IF x = k THEN v ELSE m[x]]

\* strconv.Itoa and strconv.Atoi on the decimal strings of small numbers
Digits == <<"0", "1", "2", "3", "4", "5">>
Itoa(i) == Digits[i + 1]
Atoi(s) ==
    IF \E i \in DOMAIN Digits : Digits[i] = s
    THEN [ok |-> TRUE, v |-> (CHOOSE i \in DOMAIN Digits : Digits[i] = s) - 1]
    ELSE [ok |-> FALSE, v |-> 0]

\* the fresh ID the runtime gives the slot-th object that NewPod call n
\* creates (call 0: the objects that somebody else creates)
FreshID(n, slot) == n * (MaxN + 4) + slot

\* ---------------------------------------------------------------- state
VARIABLES
    containers,   \* the runtime's containers
    volumes,      \* the runtime's volumes
    nforeign,     \* containers created by somebody else so far
    call,         \* the NewPod call in progress: its position and locals
    ncalls,       \* NewPod calls started so far
    newPodRes,    \* what the last NewPod call returned
    res,          \* what the caller's last operation returned
    execs,        \* the exec sessions, in the order of their creation
    driver,       \* the DockerDriver: its init image and its network
    images,       \* the images that the runtime holds locally
    ops,          \* the requests of the last NewPod to the runtime, in order
    users,        \* the config store: its users
    projectGroups,   \* the config store: its project groups
    linkedAccounts,  \* the config store: its linked accounts
    actionRes,    \* the last call of the ActionHandler: its request and error
    nids          \* the objects that the ActionHandler has made so far

vars == <<containers, volumes, nforeign, call, ncalls, newPodRes, res, execs, driver, images, ops,
          users, projectGroups, linkedAccounts, actionRes, nids>>

\* the state of the config store and of its ActionHandler
ConfigStore == <<users, projectGroups, linkedAccounts, actionRes, nids>>
\* the state of the docker driver and of its runtime
DockerState == <<containers, volumes, nforeign, call, ncalls, newPodRes, res, execs, driver,
                 images, ops>>
\* the result of a call of the ActionHandler: the operation, the fields of
\* its request that it reads, the error that it returns
ActionResult(op, userRef, userName, laID, remoteSourceName, remoteUserID, err) ==
    [op |-> op, UserRef |-> userRef, UserName |-> userName, LinkedAccountID |-> laID,
     RemoteSourceName |-> remoteSourceName, RemoteUserID |-> remoteUserID, err |-> err]
NoActionResult == ActionResult("none", "", "", "", "", "", "nil")
\* an empty config store
InitConfigStore ==
    /\ users = {}
    /\ projectGroups = {}
    /\ linkedAccounts = {}
    /\ actionRes = NoActionResult
    /\ nids = 0

\* image references: a repository and a tag ("" when the reference has none)
Image(repo, tag) == [repo |-> repo, tag |-> tag]
NoImage == Image("", "")
TaskImage == Image("alpine", "3")
InitImages == {Image("busybox", "1.36"), Image("busybox", "latest"), Image("busybox", "")}
\* registry.GetImageTagOrDigest: the tag of the reference, "latest" without one
GetImageTagOrDigest(image) == IF image.tag = "" THEN "latest" ELSE image.tag
\* the networks that WithDockerDriverNetwork may set ("" when it is not used)
Networks == {"", "agolanet"}

\* the Volumes of a ContainerConfig: none, a tmpfs one, one without TmpFS
TmpFSVolume == [Path |-> "/cache", TmpFS |-> TRUE]
OtherVolume == [Path |-> "/cache", TmpFS |-> FALSE]

\* PodConfig and ContainerConfig
ContainerConfigs == [Name : Names, Image : {TaskImage}, Volumes : {<<>>}]
BuildContainerConfigs ==
    [Name : Names, Image : {TaskImage}, Volumes : {<<>>, <<TmpFSVolume>>, <<OtherVolume>>}]
RECURSIVE SeqsUpTo(_, _)
SeqsUpTo(S, n) ==
    IF n = 0 THEN {<<>>}
    ELSE LET shorter == SeqsUpTo(S, n - 1)
         IN shorter \cup {Append(s, x) : s \in {t \in shorter : Len(t) = n - 1}, x \in S}
PodConfigs ==
    [ID : PodIDs, TaskID : TaskIDs, InitVolumeDir : {InitVolumeDir},
     Containers : SeqsUpTo(ContainerConfigs, MaxN)]
BuildPodConfigs ==
    [ID : PodIDs, TaskID : TaskIDs, InitVolumeDir : {InitVolumeDir},
     Containers : SeqsUpTo(BuildContainerConfigs, MaxN)]
NoConfig == [ID |-> "", TaskID |-> "", InitVolumeDir |-> "", Containers |-> <<>>]

\* DockerPod; labels is nil (no key) unless GetPods found the index-0 container
NoPod ==
    [id |-> "", executorID |-> "", labels |-> NoLabels, containers |-> <<>>,
     containersMap |-> [k \in {} |-> 0], toolboxVolumeName |-> 0,
     projectVolumeName |-> 0, initVolumeDir |-> ""]

\* DockerPod.ID, DockerPod.TaskID
ID(dp) == dp.id
TaskID(dp) == IF HasKey(dp.labels, taskIDKey) THEN dp.labels[taskIDKey] ELSE ""

\* ---------------------------------------------------------------- runtime
\* the runtime ID of a container, the generated name of a volume
ObjectID(x) == IF "ID" \in DOMAIN x THEN x.ID ELSE x.Name
\* the containers or volumes of S in the order of their creation
RECURSIVE Ascending(_)
Ascending(S) ==
    IF S = {} THEN <<>>
    ELSE LET m == CHOOSE x \in S : \A y \in S : ObjectID(x) <= ObjectID(y)
         IN <<m>> \o Ascending(S \ {m})
Reverse(s) == [i \in 1..Len(s) |-> s[Len(s) + 1 - i]]
\* the orders in which the runtime lists a set of containers or volumes:
\* by creation, oldest or newest first
ListOrders(S) == {Ascending(S), Reverse(Ascending(S))}

\* ContainerList: running containers only unless all; the label filter
MatchLabels(c, filter) ==
    \A k \in DOMAIN filter : HasKey(c.Labels, k) /\ c.Labels[k] = filter[k]
ContainerList(filter, all) ==
    {c \in containers : (all \/ c.State = "running") /\ MatchLabels(c, filter)}

\* ContainerStart, ContainerStop (a container that is not running stays as
\* it is), forced ContainerRemove and VolumeRemove, by ID
SetState(cs, id, state) ==
    {IF c.ID = id THEN [c EXCEPT !.State = state] ELSE c : c \in cs}
\* Exists as it would be if the runtime took a request on a container that
\* is gone
ExistsOrGone(cs, id) == TRUE
Exists(cs, id) == \E c \in cs : c.ID = id
Stopped(cs, id) ==
    {IF c.ID = id /\ c.State = "running" THEN [c EXCEPT !.State = "exited"] ELSE c
        : c \in cs}
Without(cs, id) == {c \in cs : c.ID # id}
VolumeExists(vs, name) == \E v \in vs : v.Name = name
WithoutVolume(vs, name) == {v \in vs : v.Name # name}
\* a container that shares the network of another one starts only while
\* that one runs
CanStart(cs, id) ==
    \A c \in cs :
        (c.ID = id /\ c.NetworkMode # <<>>) =>
            \E m \in cs : m.ID = c.NetworkMode[2] /\ m.State = "running"
\* a volume that a container mounts is not removed, forced or not
VolumeInUse(cs, name) ==
    \E c \in cs : \E i \in DOMAIN c.Mounts : c.Mounts[i].Source = name

\* ---------------------------------------------------------------- results
\* the result of the caller's last operation. after says what came right
\* before it: "NewPod" or "NewPodFailed" for a GetPods that follows the
\* return of NewPod, "Stop" or "Remove" for a Remove that follows a Stop or
\* Remove of the same Pod in which no request failed, "StopRemove" for a
\* GetPods that follows such a Stop and Remove (pod is then that Pod)
NoRes ==
    [op |-> "none", out |-> "ok", pod |-> NoPod, pods |-> {}, all |-> FALSE,
     reqs |-> <<>>, failed |-> {}, name |-> "", target |-> 0, after |-> "",
     execReqs |-> <<>>, cmd |-> <<>>]
After(op, dp) ==
    IF op = "GetPods"
    THEN IF res.op = "NewPod" THEN (IF res.out = "ok" THEN "NewPod" ELSE "NewPodFailed")
         ELSE IF res.op = "Remove" /\ res.out = "ok" /\ res.after = "Stop"
              THEN "StopRemove" ELSE ""
    ELSE IF op = "Remove" /\ res.op \in {"Stop", "Remove"} /\ res.out = "ok"
            /\ res.pod = dp
         THEN res.op ELSE ""
Result(op, out, dp) ==
    [NoRes EXCEPT !.op = op, !.out = out, !.after = After(op, dp),
        !.pod = IF op = "GetPods"
                THEN (IF After(op, dp) = "StopRemove" THEN res.pod ELSE NoPod)
                ELSE dp]

IdleCall ==
    [pc |-> "idle", n |-> 0, podConfig |-> NoConfig, cindex |-> 0,
     mainContainerID |-> 0, containerID |-> 0, toolboxVol |-> 0, projectVol |-> 0,
     ctx |-> "live", cancelAt |-> 0]
\* the context of NewPod as it would be if the runtime did not look at it
LiveAlways == TRUE
\* the context of the NewPod call is not cancelled: a request to the runtime
\* under a cancelled context fails
Live == call.ctx = "live"
\* the context of the NewPod call is cancelled, after cancelAt requests
CancelNewPod ==
    /\ call.pc # "idle"
    /\ call.ctx = "live"
    /\ call' = [call EXCEPT !.ctx = "cancelled", !.cancelAt = Len(ops)]
    /\ UNCHANGED <<containers, volumes, nforeign, ncalls, newPodRes, res, execs,
                   driver, images, ops>>
    /\ UNCHANGED ConfigStore
\* what NewPod returned: the Pod, or the error with the step (and the turn
\* of the loop) that failed
NoNewPodRes ==
    [status |-> "none", n |-> 0, podConfig |-> NoConfig, pod |-> NoPod,
     at |-> "none", cindex |-> 0]

Init ==
    /\ containers = {}
    /\ volumes = {}
    /\ nforeign = 0
    /\ call = IdleCall
    /\ ncalls = 0
    /\ newPodRes = NoNewPodRes
    /\ res = NoRes
    /\ execs = <<>>
    /\ driver = [initImage |-> Image("busybox", "1.36"), network |-> ""]
    /\ images = {}
    /\ ops = <<>>
    /\ InitConfigStore

\* NewDockerDriver with any init image, with or without a network, on a
\* runtime that holds any of the images
InitBuild ==
    /\ containers = {}
    /\ volumes = {}
    /\ nforeign = 0
    /\ call = IdleCall
    /\ ncalls = 0
    /\ newPodRes = NoNewPodRes
    /\ res = NoRes
    /\ execs = <<>>
    /\ driver \in [initImage : InitImages, network : Networks]
    /\ images \in SUBSET {driver.initImage, TaskImage}
    /\ ops = <<>>
    /\ InitConfigStore

\* a request to the runtime: the operation, the image or the container index
\* that it is about
Request(op, image, index) == [op |-> op, image |-> image, index |-> index]
NoIndex == 0 - 1

\* fetchImage: the outcomes (failed or not, the requests made, the local
\* images afterwards) of fetching image on a runtime that holds local
FetchImageIfMissing(image, alwaysFetch, local) ==
    LET tag == GetImageTagOrDigest(image)
        exists == image \in local
        list == Request("ImageList", image, NoIndex)
        pull == Request("ImagePull", image, NoIndex)
    IN {[err |-> TRUE, ops |-> <<list>>, images |-> local]} \cup
       IF tag = "latest" \/ ~exists
       THEN {[err |-> TRUE, ops |-> <<list, pull>>, images |-> local],
             [err |-> FALSE, ops |-> <<list, pull>>, images |-> local \cup {image}]}
       ELSE {[err |-> FALSE, ops |-> <<list>>, images |-> local]}
FetchImage(image, alwaysFetch, local) ==
    LET tag == GetImageTagOrDigest(image)
        exists == image \in local
        list == Request("ImageList", image, NoIndex)
        pull == Request("ImagePull", image, NoIndex)
    IN {[err |-> TRUE, ops |-> <<list>>, images |-> local]} \cup
       IF alwaysFetch \/ tag = "latest" \/ ~exists
       THEN {[err |-> TRUE, ops |-> <<list, pull>>, images |-> local],
             [err |-> FALSE, ops |-> <<list, pull>>, images |-> local \cup {image}]}
       ELSE {[err |-> FALSE, ops |-> <<list>>, images |-> local]}

\* ---------------------------------------------------------------- NewPod
\* NewPod returns an error from the step it is at: nothing is undone
NewPodFail(n, podConfig, at) ==
    /\ newPodRes' = [status |-> "err", n |-> n, podConfig |-> podConfig,
                     pod |-> NoPod, at |-> at, cindex |-> call.cindex]
    /\ res' = Result("NewPod", "err", NoPod)
    /\ call' = IdleCall

\* NewPod as it would be without the test of the length of Containers
NewPodUnchecked(podConfig) ==
    /\ call.pc = "idle"
    /\ ncalls < MaxCalls
    /\ podConfig.ID \in PodIDsOf(ncalls + 1)
    /\ ncalls' = ncalls + 1
    /\ call' = [IdleCall EXCEPT !.pc = "createToolboxVolume",
                   !.n = ncalls + 1, !.podConfig = podConfig]
    /\ newPodRes' = NoNewPodRes
    /\ res' = NoRes
    /\ ops' = <<>>
    /\ UNCHANGED <<containers, volumes, nforeign, execs, driver, images>>
    /\ UNCHANGED ConfigStore

\* NewPod is called: the empty container config is refused. The caller
\* keeps no Pod of before the call
NewPod(podConfig) ==
    /\ call.pc = "idle"
    /\ ncalls < MaxCalls
    /\ podConfig.ID \in PodIDsOf(ncalls + 1)
    /\ ncalls' = ncalls + 1
    /\ IF Len(podConfig.Containers) = 0
       THEN NewPodFail(ncalls + 1, podConfig, "empty")
       ELSE /\ call' = [IdleCall EXCEPT !.pc = "createToolboxVolume",
                           !.n = ncalls + 1, !.podConfig = podConfig]
            /\ newPodRes' = NoNewPodRes
            /\ res' = NoRes
    /\ ops' = <<>>
    /\ UNCHANGED <<containers, volumes, nforeign, execs, driver, images>>
    /\ UNCHANGED ConfigStore

VolumeLabels(podID, name) ==
    [agola |-> agolaLabelValue, executorID |-> ExecutorID, podID |-> podID,
     volumeName |-> name]
Volume(name, podID, volumeName, n) ==
    [Name |-> name, Labels |-> VolumeLabels(podID, volumeName), by |-> n]

\* createToolboxVolume up to VolumeCreate: the init image is fetched, the
\* volume is created; either may fail
createToolboxVolume ==
    /\ call.pc = "createToolboxVolume"
    /\ \E fetched \in {f \in FetchImage(driver.initImage, FALSE, images) :
                            Live \/ (f.err /\ Len(f.ops) = 1)} :
          /\ images' = fetched.images
          /\ \/ /\ fetched.err
                /\ ops' = ops \o fetched.ops
                /\ NewPodFail(call.n, call.podConfig, "createToolboxVolume")
                /\ UNCHANGED <<containers, volumes>>
             \/ /\ ~fetched.err
                /\ ops' = ops \o fetched.ops \o <<Request("VolumeCreate", NoImage, NoIndex)>>
                /\ \/ /\ NewPodFail(call.n, call.podConfig, "createToolboxVolume")
                      /\ UNCHANGED <<containers, volumes>>
                   \/ /\ Live
                      /\ volumes' = volumes \cup
                            {Volume(FreshID(call.n, 1), call.podConfig.ID, toolboxVolumeName, call.n)}
                      /\ call' = [call EXCEPT !.pc = "seedToolboxVolume",
                                     !.toolboxVol = FreshID(call.n, 1)]
                      /\ UNCHANGED <<containers, newPodRes, res>>
    /\ UNCHANGED <<nforeign, ncalls, execs, driver>>
    /\ UNCHANGED ConfigStore

\* the container that copies the toolbox into the volume: it has no labels
HelperContainer(id, state, toolboxVol, n) ==
    [ID |-> id, Labels |-> NoLabels, State |-> state, NetworkMode |-> <<>>,
     Mounts |-> <<[Type |-> "bind", Source |-> toolboxVol, Target |-> "/tmp/agola",
                   ReadOnly |-> FALSE]>>,
     by |-> n]

\* the rest of createToolboxVolume: create and start the helper container,
\* copy the toolbox, remove the helper (the error of the removal is ignored)
seedToolboxVolume ==
    /\ call.pc = "seedToolboxVolume"
    /\ \/ \* ContainerCreate fails
          /\ ops' = ops \o <<Request("ContainerCreate", driver.initImage, NoIndex)>>
          /\ NewPodFail(call.n, call.podConfig, "seedToolboxVolume")
          /\ UNCHANGED containers
       \/ \* ContainerStart fails
          /\ Live
          /\ ops' = ops \o <<Request("ContainerCreate", driver.initImage, NoIndex),
                              Request("ContainerStart", NoImage, NoIndex)>>
          /\ containers' = containers \cup
                {HelperContainer(FreshID(call.n, 2), "created", call.toolboxVol, call.n)}
          /\ NewPodFail(call.n, call.podConfig, "seedToolboxVolume")
       \/ \* CopyToContainer fails
          /\ Live
          /\ ops' = ops \o <<Request("ContainerCreate", driver.initImage, NoIndex),
                              Request("ContainerStart", NoImage, NoIndex),
                              Request("CopyToContainer", NoImage, NoIndex)>>
          /\ containers' = containers \cup
                {HelperContainer(FreshID(call.n, 2), "running", call.toolboxVol, call.n)}
          /\ NewPodFail(call.n, call.podConfig, "seedToolboxVolume")
       \/ \* the toolbox is copied; the helper is removed, or stays
          /\ Live
          /\ ops' = ops \o <<Request("ContainerCreate", driver.initImage, NoIndex),
                              Request("ContainerStart", NoImage, NoIndex),
                              Request("CopyToContainer", NoImage, NoIndex),
                              Request("ContainerRemove", NoImage, NoIndex)>>
          /\ \E removed \in BOOLEAN :
                containers' =
                    IF removed THEN containers
                    ELSE containers \cup
                        {HelperContainer(FreshID(call.n, 2), "running", call.toolboxVol, call.n)}
          /\ call' = [call EXCEPT !.pc = "createProjectVolume"]
          /\ UNCHANGED <<newPodRes, res>>
       \/ \* the toolbox is copied and the context cancelled before the removal
          \* of the helper: the removal fails, its error is ignored
          /\ Live
          /\ ops' = ops \o <<Request("ContainerCreate", driver.initImage, NoIndex),
                              Request("ContainerStart", NoImage, NoIndex),
                              Request("CopyToContainer", NoImage, NoIndex),
                              Request("ContainerRemove", NoImage, NoIndex)>>
          /\ containers' = containers \cup
                {HelperContainer(FreshID(call.n, 2), "running", call.toolboxVol, call.n)}
          /\ call' = [call EXCEPT !.pc = "createProjectVolume", !.ctx = "cancelled",
                                  !.cancelAt = Len(ops) + 3]
          /\ UNCHANGED <<newPodRes, res>>
    /\ UNCHANGED <<volumes, nforeign, ncalls, execs, driver, images>>
    /\ UNCHANGED ConfigStore

createProjectVolume ==
    /\ call.pc = "createProjectVolume"
    /\ \/ /\ NewPodFail(call.n, call.podConfig, "createProjectVolume")
          /\ UNCHANGED volumes
       \/ /\ Live
          /\ volumes' = volumes \cup
                {Volume(FreshID(call.n, 3), call.podConfig.ID, projectVolumeName, call.n)}
          /\ call' = [call EXCEPT !.pc = "createContainer", !.projectVol = FreshID(call.n, 3)]
          /\ UNCHANGED <<newPodRes, res>>
    /\ ops' = ops \o <<Request("VolumeCreate", NoImage, NoIndex)>>
    /\ UNCHANGED <<containers, nforeign, ncalls, execs, driver, images>>
    /\ UNCHANGED ConfigStore

\* createContainer: name, labels, network mode and mounts of container index
ContainerName(index, podConfig) ==
    LET name == podConfig.Containers[index + 1].Name
    IN IF name = "" /\ index = 0 THEN mainContainerName ELSE name
ContainerLabels(index, podConfig) ==
    [agola |-> agolaLabelValue, executorID |-> ExecutorID, podID |-> podConfig.ID,
     taskID |-> podConfig.TaskID, containerIndex |-> Itoa(index),
     containerName |-> ContainerName(index, podConfig)]
\* NetworkMode as it would be without the test of the index
NetworkModeOfAll(index, maincontainerID) == <<"container", maincontainerID>>
NetworkMode(index, maincontainerID) ==
    IF index # 0 THEN <<"container", maincontainerID>> ELSE <<>>
\* the mounts of the Volumes of container index: tmpfs ones, without a source
NoSource == 0
TmpfsMounts(index, podConfig) ==
    LET Volumes == podConfig.Containers[index + 1].Volumes
    IN [i \in 1..Len(Volumes) |->
            [Type |-> "tmpfs", Source |-> NoSource, Target |-> Volumes[i].Path,
             ReadOnly |-> FALSE]]
\* MissingVolumeConfig as it would be if every volume were taken
MissingVolumeConfigNever(index, podConfig) == FALSE
\* a volume of container index has no TmpFS: "missing volume config"
MissingVolumeConfig(index, podConfig) ==
    LET Volumes == podConfig.Containers[index + 1].Volumes
    IN \E i \in 1..Len(Volumes) : ~Volumes[i].TmpFS
\* ContainerMounts as it would be without the test of the name
ContainerMountsForAll(index, podConfig, toolboxVol, projectVol) ==
    <<[Type |-> "volume", Source |-> toolboxVol,
       Target |-> podConfig.InitVolumeDir, ReadOnly |-> TRUE],
      [Type |-> "volume", Source |-> projectVol,
       Target |-> defaultProjectDir, ReadOnly |-> FALSE]>>
    \o TmpfsMounts(index, podConfig)
ContainerMounts(index, podConfig, toolboxVol, projectVol) ==
    (IF ContainerName(index, podConfig) # ""
     THEN <<[Type |-> "volume", Source |-> toolboxVol,
             Target |-> podConfig.InitVolumeDir, ReadOnly |-> TRUE],
            [Type |-> "volume", Source |-> projectVol,
             Target |-> defaultProjectDir, ReadOnly |-> FALSE]>>
     ELSE <<>>)
    \o TmpfsMounts(index, podConfig)
Container(id, index, podConfig, maincontainerID, toolboxVol, projectVol, n) ==
    [ID |-> id, Labels |-> ContainerLabels(index, podConfig), State |-> "created",
     NetworkMode |-> NetworkMode(index, maincontainerID),
     Mounts |-> ContainerMounts(index, podConfig, toolboxVol, projectVol),
     by |-> n]

\* one turn of the loop of NewPod, first half: createContainer (the image is
\* fetched, the container created; either may fail)
createContainer ==
    /\ call.pc = "createContainer"
    /\ \E fetched \in {f \in FetchImage(call.podConfig.Containers[call.cindex + 1].Image,
                                         TRUE, images) :
                            Live \/ (f.err /\ Len(f.ops) = 1)} :
          /\ images' = fetched.images
          /\ \/ /\ fetched.err
                /\ ops' = ops \o fetched.ops
                /\ NewPodFail(call.n, call.podConfig, "createContainer")
                /\ UNCHANGED containers
             \/ /\ ~fetched.err
                /\ MissingVolumeConfig(call.cindex, call.podConfig)
                /\ ops' = ops \o fetched.ops
                /\ NewPodFail(call.n, call.podConfig, "missing volume config")
                /\ UNCHANGED containers
             \/ /\ ~fetched.err
                /\ ~MissingVolumeConfig(call.cindex, call.podConfig)
                /\ ops' = ops \o fetched.ops \o
                        <<Request("ContainerCreate",
                                  call.podConfig.Containers[call.cindex + 1].Image, call.cindex)>>
                /\ \/ /\ NewPodFail(call.n, call.podConfig, "createContainer")
                      /\ UNCHANGED containers
                   \/ /\ Live
                      /\ containers' = containers \cup
                            {Container(FreshID(call.n, 4 + call.cindex), call.cindex,
                                       call.podConfig, call.mainContainerID,
                                       call.toolboxVol, call.projectVol, call.n)}
                      /\ call' = [call EXCEPT !.pc = "ContainerStart",
                                     !.containerID = FreshID(call.n, 4 + call.cindex),
                                     !.mainContainerID =
                                        IF call.cindex = 0 THEN FreshID(call.n, 4)
                                        ELSE call.mainContainerID]
                      /\ UNCHANGED <<newPodRes, res>>
    /\ UNCHANGED <<volumes, nforeign, ncalls, execs, driver>>
    /\ UNCHANGED ConfigStore

\* ContainerStart as it would be if NewPod removed the container that it
\* could not start
ContainerStartRollback ==
    /\ call.pc = "ContainerStart"
    /\ \/ /\ NewPodFail(call.n, call.podConfig, "ContainerStart")
          /\ containers' = Without(containers, call.containerID)
       \/ /\ Live
          /\ CanStart(containers, call.containerID)
          /\ containers' = SetState(containers, call.containerID, "running")
          /\ call' = [call EXCEPT !.cindex = call.cindex + 1,
                         !.pc = IF call.cindex + 1 < Len(call.podConfig.Containers)
                                THEN "createContainer" ELSE "ContainerList"]
          /\ UNCHANGED <<newPodRes, res>>
    /\ ops' = ops \o <<Request("ContainerStart", NoImage, call.cindex)>>
    /\ UNCHANGED <<volumes, nforeign, ncalls, execs, driver, images>>
    /\ UNCHANGED ConfigStore

\* ContainerStart as it would be if the discovery came after the first start
ContainerStartOnce ==
    /\ call.pc = "ContainerStart"
    /\ \/ /\ NewPodFail(call.n, call.podConfig, "ContainerStart")
          /\ UNCHANGED containers
       \/ /\ Live
          /\ CanStart(containers, call.containerID)
          /\ containers' = SetState(containers, call.containerID, "running")
          /\ call' = [call EXCEPT !.cindex = call.cindex + 1, !.pc = "ContainerList"]
          /\ UNCHANGED <<newPodRes, res>>
    /\ ops' = ops \o <<Request("ContainerStart", NoImage, call.cindex)>>
    /\ UNCHANGED <<volumes, nforeign, ncalls, execs, driver, images>>
    /\ UNCHANGED ConfigStore

\* second half: ContainerStart, then the next container or the discovery
ContainerStart ==
    /\ call.pc = "ContainerStart"
    /\ \/ /\ NewPodFail(call.n, call.podConfig, "ContainerStart")
          /\ UNCHANGED containers
       \/ /\ Live
          /\ CanStart(containers, call.containerID)
          /\ containers' = SetState(containers, call.containerID, "running")
          /\ call' = [call EXCEPT !.cindex = call.cindex + 1,
                         !.pc = IF call.cindex + 1 < Len(call.podConfig.Containers)
                                THEN "createContainer" ELSE "ContainerList"]
          /\ UNCHANGED <<newPodRes, res>>
    /\ ops' = ops \o <<Request("ContainerStart", NoImage, call.cindex)>>
    /\ UNCHANGED <<volumes, nforeign, ncalls, execs, driver, images>>
    /\ UNCHANGED ConfigStore

\* ---------------------------------------------------------------- sorting
\* strings.Compare on the mount destinations in use
Destinations == <<"/cache", "/mnt/agola", "/project", "/tmp/agola">>
DestinationRank(d) == CHOOSE i \in DOMAIN Destinations : Destinations[i] = d
\* the insertion sort the sort functions do on a short slice, on pairs
\* <<key, element>>: x goes before the first pair of a greater key
RECURSIVE Insert(_, _)
Insert(s, x) ==
    IF s = <<>> THEN <<x>>
    ELSE IF x[1] < s[1][1] THEN <<x>> \o s
    ELSE <<s[1]>> \o Insert(Tail(s), x)
RECURSIVE InsertionSort(_)
InsertionSort(s) ==
    IF s = <<>> THEN <<>>
    ELSE Insert(InsertionSort(SubSeq(s, 1, Len(s) - 1)), s[Len(s)])
\* sort.Sort(MountSlice(mounts)): by destination
MountSlice(mounts) ==
    LET sorted == InsertionSort(
            [i \in 1..Len(mounts) |-> <<DestinationRank(mounts[i].Target), mounts[i]>>])
    IN [i \in 1..Len(mounts) |-> sorted[i][2]]
\* slices.SortFunc(cs, ContainersByIndexSortFunc): by index
ContainersByIndexSortFunc(cs) ==
    LET sorted == InsertionSort([i \in 1..Len(cs) |-> <<cs[i].Index, cs[i]>>])
    IN [i \in 1..Len(cs) |-> sorted[i][2]]

\* DockerContainer: the index and what the Pod uses of the listed container,
\* with its mounts sorted
DockerContainer(cIndex, container) ==
    [Index |-> cIndex,
     Container |-> [ID |-> container.ID, Labels |-> container.Labels,
                    Mounts |-> MountSlice(container.Mounts), by |-> container.by]]

\* ---------------------------------------------------------------- discovery
\* the loop of NewPod over the listed containers, from the i-th on; acc is
\* the pod so far with seenIndexes, count and the duplicate-index error
RECURSIVE NewPodLoop(_, _, _)
NewPodLoop(lst, i, acc) ==
    IF i > Len(lst) THEN acc
    ELSE LET container == lst[i]
             ok == HasKey(container.Labels, containerIndexKey)
             cIndex == Atoi(IF ok THEN container.Labels[containerIndexKey] ELSE "")
             dContainer == DockerContainer(cIndex.v, container)
             named == /\ HasKey(container.Labels, containerNameKey)
                      /\ container.Labels[containerNameKey] # ""
         IN IF ~ok \/ ~cIndex.ok THEN NewPodLoop(lst, i + 1, acc)
            ELSE IF cIndex.v \in acc.seenIndexes THEN [acc EXCEPT !.duplicate = TRUE]
            ELSE NewPodLoop(lst, i + 1,
                    [acc EXCEPT
                        !.containers = Append(@, dContainer),
                        !.containersMap =
                            IF named
                            THEN MapPut(@, container.Labels[containerNameKey], dContainer)
                            ELSE @,
                        !.seenIndexes = @ \cup {cIndex.v},
                        !.count = @ + 1])

\* the end of NewPod: the Pod of the listed containers lst, or the error
NewPodResult(lst, podConfig, toolboxVol, projectVol) ==
    LET acc == NewPodLoop(lst, 1,
                  [containers |-> <<>>, containersMap |-> [k \in {} |-> 0],
                   seenIndexes |-> {}, count |-> 0, duplicate |-> FALSE])
        sorted == ContainersByIndexSortFunc(acc.containers)
    IN IF Len(lst) = 0 THEN [err |-> TRUE, pod |-> NoPod]
       ELSE IF acc.duplicate THEN [err |-> TRUE, pod |-> NoPod]
       ELSE IF acc.count # Len(lst) THEN [err |-> TRUE, pod |-> NoPod]
       ELSE [err |-> FALSE,
             pod |-> [id |-> podConfig.ID,
                      executorID |-> ExecutorID,
                      labels |-> NoLabels,
                      containers |-> sorted,
                      containersMap |-> MapPut(acc.containersMap, "", sorted[1]),
                      toolboxVolumeName |-> toolboxVol,
                      projectVolumeName |-> projectVol,
                      initVolumeDir |-> podConfig.InitVolumeDir]]

SearchLabels(podConfig) ==
    [agola |-> agolaLabelValue, executorID |-> ExecutorID, podID |-> podConfig.ID,
     taskID |-> podConfig.TaskID]

\* the discovery of NewPod: the running containers with the pod's labels are
\* listed and the Pod is built from them
NewPodList ==
    /\ call.pc = "ContainerList"
    /\ \/ NewPodFail(call.n, call.podConfig, "ContainerList")
       \/ \E lst \in {l \in ListOrders(ContainerList(SearchLabels(call.podConfig), FALSE)) :
                            Live} :
            LET r == NewPodResult(lst, call.podConfig, call.toolboxVol, call.projectVol)
            IN IF r.err
               THEN NewPodFail(call.n, call.podConfig, "discovery")
               ELSE /\ newPodRes' = [status |-> "ok", n |-> call.n,
                                     podConfig |-> call.podConfig, pod |-> r.pod,
                                     at |-> "none", cindex |-> call.cindex]
                    /\ res' = Result("NewPod", "ok", r.pod)
                    /\ call' = IdleCall
    /\ ops' = ops \o <<Request("ContainerList", NoImage, NoIndex)>>
    /\ UNCHANGED <<containers, volumes, nforeign, ncalls, execs, driver, images>>
    /\ UNCHANGED ConfigStore

\* ---------------------------------------------------------------- environment
\* the process of a running container of a pod ends
ContainerExit ==
    /\ \E c \in containers :
          /\ c.State = "running"
          /\ c.by > 0 /\ HasKey(c.Labels, podIDKey)
          /\ containers' = SetState(containers, c.ID, "exited")
    /\ UNCHANGED <<volumes, nforeign, call, ncalls, newPodRes, res, execs, driver, images, ops>>
    /\ UNCHANGED ConfigStore

\* the labels of containers that somebody else creates: the main container
\* of a pod of another executor or of an earlier run of this one, or a
\* container with this executor's labels whose containerIndex is missing or
\* is no number
LeftoverLabels(e, p, t) ==
    [agola |-> agolaLabelValue, executorID |-> e, podID |-> p, taskID |-> t,
     containerIndex |-> "0", containerName |-> mainContainerName]
ForeignLabels ==
    {LeftoverLabels(OtherExecutorID, "p1", t) : t \in TaskIDs}
    \cup {LeftoverLabels(ExecutorID, "p1", t) : t \in TaskIDs}
    \cup {[agola |-> agolaLabelValue, executorID |-> ExecutorID, podID |-> "p2",
           taskID |-> t, containerName |-> "db"] : t \in TaskIDs}
    \cup {[agola |-> agolaLabelValue, executorID |-> ExecutorID, podID |-> "p1",
           taskID |-> t, containerIndex |-> "x", containerName |-> "db"]
            : t \in TaskIDs}
ForeignCreate ==
    /\ nforeign < MaxForeign
    /\ nforeign' = nforeign + 1
    /\ \E labels \in ForeignLabels :
          containers' = containers \cup
              {[ID |-> FreshID(0, nforeign + 1), Labels |-> labels, State |-> "running",
                NetworkMode |-> <<>>, Mounts |-> <<>>, by |-> 0]}
    /\ UNCHANGED <<volumes, call, ncalls, newPodRes, res, execs, driver, images, ops>>
    /\ UNCHANGED ConfigStore

\* the driver of another executor creates the main container, or a volume,
\* of a pod of its own that has the ID of a pod of this one
OtherDriverCreate ==
    /\ nforeign < MaxForeign
    /\ nforeign' = nforeign + 1
    /\ \/ /\ \E t \in TaskIDs :
                containers' = containers \cup
                    {[ID |-> FreshID(0, nforeign + 1),
                      Labels |-> LeftoverLabels(OtherExecutorID, "p1", t),
                      State |-> "running", NetworkMode |-> <<>>, Mounts |-> <<>>,
                      by |-> 0]}
          /\ UNCHANGED volumes
       \/ /\ \E volumeName \in {toolboxVolumeName, projectVolumeName} :
                volumes' = volumes \cup
                    {[Name |-> FreshID(0, nforeign + 1),
                      Labels |-> [agola |-> agolaLabelValue,
                                  executorID |-> OtherExecutorID,
                                  podID |-> "p1", volumeName |-> volumeName],
                      by |-> 0]}
          /\ UNCHANGED containers
    /\ UNCHANGED <<call, ncalls, newPodRes, res, execs, driver, images, ops>>
    /\ UNCHANGED ConfigStore

\* ---------------------------------------------------------------- GetPods
\* Mine as it would be if GetPods did not compare the executor ID
MineOrOthers(container) ==
    /\ HasKey(container.Labels, executorIDKey)
    /\ HasKey(container.Labels, podIDKey)
\* a container that GetPods looks at: of this executor, with a pod ID
Mine(container) ==
    /\ HasKey(container.Labels, executorIDKey)
    /\ container.Labels[executorIDKey] = ExecutorID
    /\ HasKey(container.Labels, podIDKey)
EmptyPod(podID) == [NoPod EXCEPT !.id = podID, !.executorID = ExecutorID]
\* the first loop of GetPods: an empty pod for every pod ID found
FirstPodsMap(lst) ==
    [podID \in {lst[i].Labels[podIDKey] : i \in {j \in DOMAIN lst : Mine(lst[j])}}
        |-> EmptyPod(podID)]
MapDelete(m, k) == [x \in (DOMAIN m) \ {k} |-> m[x]]
\* strings.HasPrefix(labelName, labelPrefix): the label keys of the driver
HasLabelPrefix(labelName) ==
    labelName \in {agolaLabelKey, executorIDKey, podIDKey, taskIDKey,
                   containerIndexKey, containerNameKey, volumeNameKey}
\* the labels of the pod: those of the container with the prefix, but its name
PodLabels(container) ==
    [k \in {labelName \in DOMAIN container.Labels :
                HasLabelPrefix(labelName) /\ labelName # containerNameKey}
        |-> container.Labels[k]]
\* the second loop of GetPods, from the i-th listed container on; a pod is
\* deleted from podsMap when the index label of one of its containers is
\* missing or no number, and the nil pod is then dereferenced
RECURSIVE GetPodsLoop(_, _, _)
GetPodsLoop(lst, i, podsMap) ==
    IF i > Len(lst) THEN [panic |-> FALSE, podsMap |-> podsMap]
    ELSE LET container == lst[i]
             podID == container.Labels[podIDKey]
             ok == HasKey(container.Labels, containerIndexKey)
             cIndex == Atoi(IF ok THEN container.Labels[containerIndexKey] ELSE "")
             deleted == IF ~ok \/ ~cIndex.ok THEN MapDelete(podsMap, podID) ELSE podsMap
             dContainer == DockerContainer(cIndex.v, container)
             named == /\ HasKey(container.Labels, containerNameKey)
                      /\ container.Labels[containerNameKey] # ""
         IN IF ~Mine(container) THEN GetPodsLoop(lst, i + 1, podsMap)
            ELSE IF ~HasKey(deleted, podID) THEN [panic |-> TRUE, podsMap |-> deleted]
            ELSE GetPodsLoop(lst, i + 1,
                    [deleted EXCEPT ![podID] =
                        [@ EXCEPT
                            !.containers = Append(@, dContainer),
                            !.containersMap =
                                IF named
                                THEN MapPut(@, container.Labels[containerNameKey],
                                            dContainer)
                                ELSE @,
                            !.labels = IF cIndex.v = 0 THEN PodLabels(container) ELSE @]])
\* the third loop: the volumes of this executor go to the pods of their pod ID
\* the third loop of GetPods as it would be if it attached no volume
GetPodsVolumesNone(vols, i, podsMap) == podsMap
RECURSIVE GetPodsVolumes(_, _, _)
GetPodsVolumes(vols, i, podsMap) ==
    IF i > Len(vols) THEN podsMap
    ELSE LET vol == vols[i]
             mine == /\ HasKey(vol.Labels, executorIDKey)
                     /\ vol.Labels[executorIDKey] = ExecutorID
                     /\ HasKey(vol.Labels, podIDKey)
                     /\ HasKey(podsMap, vol.Labels[podIDKey])
             name == IF HasKey(vol.Labels, volumeNameKey)
                     THEN vol.Labels[volumeNameKey] ELSE ""
         IN IF ~mine THEN GetPodsVolumes(vols, i + 1, podsMap)
            ELSE GetPodsVolumes(vols, i + 1,
                    [podsMap EXCEPT ![vol.Labels[podIDKey]] =
                        [@ EXCEPT
                            !.toolboxVolumeName =
                                IF name = toolboxVolumeName THEN vol.Name ELSE @,
                            !.projectVolumeName =
                                IF name = projectVolumeName THEN vol.Name ELSE @]])
\* GetPods on the listed containers and volumes: it panics, or returns pods
GetPodsResult(lst, vols) ==
    LET second == GetPodsLoop(lst, 1, FirstPodsMap(lst))
        third == GetPodsVolumes(vols, 1, second.podsMap)
    IN IF second.panic THEN [panic |-> TRUE, pods |-> {}]
       ELSE [panic |-> FALSE,
             pods |-> {[third[podID] EXCEPT
                          !.containers = ContainersByIndexSortFunc(@)]
                        : podID \in DOMAIN third}]

\* the caller of the driver does one thing at a time
Idle == call.pc = "idle"

GetPods(all) ==
    /\ Idle
    /\ \/ res' = [Result("GetPods", "err", NoPod) EXCEPT !.all = all]
       \/ \E lst \in ListOrders(ContainerList(NoLabels, all)),
             vols \in ListOrders(volumes) :
            LET r == GetPodsResult(lst, vols)
            IN res' = [Result("GetPods", IF r.panic THEN "panic" ELSE "ok", NoPod)
                          EXCEPT !.all = all, !.pods = r.pods]
    /\ UNCHANGED <<containers, volumes, nforeign, call, ncalls, newPodRes, execs, driver, images, ops>>
    /\ UNCHANGED ConfigStore

\* ---------------------------------------------------------------- Stop, Remove
\* the Pods the caller holds: of NewPod, of its last GetPods, or the one
\* its last operation was on
HeldPods ==
    (IF newPodRes.status = "ok" THEN {newPodRes.pod} ELSE {})
    \cup (IF res.op = "GetPods" THEN res.pods ELSE {})
    \cup (IF res.op \in {"Stop", "Remove", "Exec"} THEN {res.pod} ELSE {})

\* the timeout of Stop, in seconds
StopTimeout == 1

\* the loop of Stop from the i-th container of the pod on. st is the runtime
\* with the requests made and the errors got so far; the requests whose
\* number is in fail are refused by the runtime
RECURSIVE StopLoop(_, _, _, _)
StopLoop(dp, i, fail, st) ==
    IF i > Len(dp.containers) THEN st
    ELSE LET c == dp.containers[i].Container
             k == Len(st.reqs) + 1
             err == k \in fail \/ ~Exists(st.containers, c.ID)
         IN StopLoop(dp, i + 1, fail,
                [st EXCEPT
                    !.containers = IF err THEN @ ELSE Stopped(@, c.ID),
                    !.reqs = Append(@, [call |-> "ContainerStop", id |-> c.ID,
                                        timeout |-> StopTimeout, force |-> FALSE]),
                    !.errs = IF err THEN @ \cup {k} ELSE @])

RECURSIVE RemoveLoop(_, _, _, _)
RemoveLoop(dp, i, fail, st) ==
    IF i > Len(dp.containers) THEN st
    ELSE LET c == dp.containers[i].Container
             k == Len(st.reqs) + 1
             err == k \in fail \/ ~Exists(st.containers, c.ID)
         IN RemoveLoop(dp, i + 1, fail,
                [st EXCEPT
                    !.containers = IF err THEN @ ELSE Without(@, c.ID),
                    !.reqs = Append(@, [call |-> "ContainerRemove", id |-> c.ID,
                                        timeout |-> 0, force |-> TRUE]),
                    !.errs = IF err THEN @ \cup {k} ELSE @])
\* RemoveVolume as it would be if Remove gave up at the first error
RemoveVolumeUnlessFailed(name, fail, st) ==
    IF name = 0 \/ st.errs # {} THEN st
    ELSE LET k == Len(st.reqs) + 1
             err == k \in fail \/ VolumeInUse(st.containers, name)
         IN [st EXCEPT
                !.volumes = IF err THEN @ ELSE WithoutVolume(@, name),
                !.reqs = Append(@, [call |-> "VolumeRemove", id |-> name,
                                    timeout |-> 0, force |-> TRUE]),
                !.errs = IF err THEN @ \cup {k} ELSE @]
\* VolumeRemove when the pod has the volume name; a forced removal of a
\* volume that is gone is no error
RemoveVolume(name, fail, st) ==
    IF name = 0 THEN st
    ELSE LET k == Len(st.reqs) + 1
             err == k \in fail \/ VolumeInUse(st.containers, name)
         IN [st EXCEPT
                !.volumes = IF err THEN @ ELSE WithoutVolume(@, name),
                !.reqs = Append(@, [call |-> "VolumeRemove", id |-> name,
                                    timeout |-> 0, force |-> TRUE]),
                !.errs = IF err THEN @ \cup {k} ELSE @]
Runtime == [containers |-> containers, volumes |-> volumes, reqs |-> <<>>, errs |-> {}]

Stop(dp) ==
    /\ Idle
    /\ \E fail \in SUBSET (1..Len(dp.containers)) :
          LET st == StopLoop(dp, 1, fail, Runtime)
          IN /\ containers' = st.containers
             /\ res' = [Result("Stop", IF st.errs # {} THEN "err" ELSE "ok", dp)
                           EXCEPT !.reqs = st.reqs, !.failed = st.errs]
    /\ UNCHANGED <<volumes, nforeign, call, ncalls, newPodRes, execs, driver, images, ops>>
    /\ UNCHANGED ConfigStore

Remove(dp) ==
    /\ Idle
    /\ \E fail \in SUBSET (1..(Len(dp.containers) + 2)) :
          LET st == RemoveVolume(dp.projectVolumeName, fail,
                        RemoveVolume(dp.toolboxVolumeName, fail,
                            RemoveLoop(dp, 1, fail, Runtime)))
          IN /\ containers' = st.containers
             /\ volumes' = st.volumes
             /\ res' = [Result("Remove", IF st.errs # {} THEN "err" ELSE "ok", dp)
                           EXCEPT !.reqs = st.reqs, !.failed = st.errs]
    /\ UNCHANGED <<nforeign, call, ncalls, newPodRes, execs, driver, images, ops>>
    /\ UNCHANGED ConfigStore

\* ---------------------------------------------------------------- Exec
ExecNames == Names \cup {mainContainerName}
\* DockerContainerExec, with what it shares with the runtime and with the
\* goroutine that Exec starts:
\*   hresp    the attached connection: "open", "writeClosed", "closed"
\*   copy     the goroutine: "copy" (in io.Copy or StdCopy), "send" (at
\*            endCh <- err), "done"; copyErr is its err
\*   running, exitCode   what the runtime reports of the exec on inspection
\*   wait     the call of Wait: "none", "select", "inspect", "returned";
\*            ctx is its context, code and err what it returned
\*   stdin    the stream of Stdin() as its user left it: "open", "closed"
DockerContainerExec(execID) ==
    [execID |-> execID, hresp |-> "open", copy |-> "copy", copyErr |-> FALSE,
     running |-> TRUE, exitCode |-> 0, wait |-> "none", ctx |-> "live",
     code |-> 0, err |-> "none", stdin |-> "open"]

\* ExecConfig: Env is a map, written as the sequence of its pairs in the
\* order of the keys
ExecEnv == <<<<"HOME", "/root">>, <<"TERM", "xterm">>>>
ExecConfigs ==
    [Container : ExecNames, Env : {ExecEnv}, WorkingDir : {"/project/src"},
     Cmd : {<<"make", "test">>}]
\* json.Marshal of a map of strings: {"k":"v",...} with the keys in order
RECURSIVE Pairs(_)
Pairs(env) ==
    IF env = <<>> THEN ""
    ELSE "\"" \o env[1][1] \o "\":\"" \o env[1][2] \o "\""
         \o (IF Len(env) > 1 THEN "," ELSE "") \o Pairs(Tail(env))
Marshal(env) == "{" \o Pairs(env) \o "}"
\* filepath.Join of a directory and a file name: an empty element is ignored
Join(dir, file) == IF dir = "" THEN file ELSE dir \o "/" \o file
\* the command that Exec asks the runtime to run
ToolboxCmd(dp, execConfig) ==
    <<Join(dp.initVolumeDir, "agola-toolbox"), "exec", "-e", Marshal(execConfig.Env),
      "-w", execConfig.WorkingDir, "--">> \o execConfig.Cmd
\* the lookup of the target as it would be if a missing name were not refused
TargetContainerOrZero(dp, name) ==
    [ok |-> TRUE,
     ID |-> IF HasKey(dp.containersMap, name) THEN dp.containersMap[name].Container.ID ELSE 0]
\* targetContainer, ok := dp.containersMap[execConfig.Container]
TargetContainer(dp, name) ==
    [ok |-> HasKey(dp.containersMap, name),
     ID |-> IF HasKey(dp.containersMap, name) THEN dp.containersMap[name].Container.ID ELSE 0]

\* Exec: the command is built, the target is looked up by name, the exec is
\* created in it (the runtime refuses when the container is gone or not
\* running, or for a reason of its own) and attached (which may fail too),
\* the goroutine is started
Exec(dp, execConfig) ==
    /\ Idle
    /\ LET name == execConfig.Container
           cmd == ToolboxCmd(dp, execConfig)
           targetContainer == TargetContainer(dp, name)
           runs == \E c \in containers : c.ID = targetContainer.ID /\ c.State = "running"
       IN IF ~targetContainer.ok
          THEN /\ res' = [Result("Exec", "notfound", dp) EXCEPT !.name = name]
               /\ UNCHANGED execs
          ELSE \/ \* ContainerExecCreate fails
                  /\ res' = [Result("Exec", "err", dp)
                                EXCEPT !.name = name, !.target = targetContainer.ID,
                                       !.cmd = cmd, !.execReqs = <<"ContainerExecCreate">>]
                  /\ UNCHANGED execs
               \/ \* ContainerExecAttach fails
                  /\ runs
                  /\ res' = [Result("Exec", "err", dp)
                                EXCEPT !.name = name, !.target = targetContainer.ID,
                                       !.cmd = cmd,
                                       !.execReqs = <<"ContainerExecCreate", "ContainerExecAttach">>]
                  /\ UNCHANGED execs
               \/ /\ runs
                  /\ res' = [Result("Exec", "ok", dp)
                                EXCEPT !.name = name, !.target = targetContainer.ID,
                                       !.cmd = cmd,
                                       !.execReqs = <<"ContainerExecCreate", "ContainerExecAttach">>]
                  /\ execs' = Append(execs, DockerContainerExec(Len(execs) + 1))
    /\ UNCHANGED <<containers, volumes, nforeign, call, ncalls, newPodRes, driver, images, ops>>
    /\ UNCHANGED ConfigStore

Pods == <<containers, volumes, nforeign, call, ncalls, newPodRes, res, driver, images, ops>>

\* the goroutine: the copy ends, at the end of the stream (err is nil) or
\* with an error of the stream or of a sink
CopyEnds(s) ==
    /\ execs[s].copy = "copy"
    /\ \E err \in BOOLEAN :
          execs' = [execs EXCEPT ![s].copy = "send", ![s].copyErr = err]
    /\ UNCHANGED Pods
    /\ UNCHANGED ConfigStore

\* the process of the exec ends
ExecExits(s) ==
    /\ execs[s].running
    /\ \E exitCode \in {0, 1} :
          execs' = [execs EXCEPT ![s].running = FALSE, ![s].exitCode = exitCode]
    /\ UNCHANGED Pods
    /\ UNCHANGED ConfigStore

\* Stdin().Close() as it would be with Close in place of CloseWrite
StdinCloseBoth(s) ==
    /\ execs[s].hresp = "open"
    /\ execs' = [execs EXCEPT ![s].hresp = "closed", ![s].stdin = "closed"]
    /\ UNCHANGED Pods
    /\ UNCHANGED ConfigStore

\* Stdin().Close(): CloseWrite on the connection
StdinClose(s) ==
    /\ execs[s].hresp = "open"
    /\ execs' = [execs EXCEPT ![s].hresp = "writeClosed", ![s].stdin = "closed"]
    /\ UNCHANGED Pods
    /\ UNCHANGED ConfigStore

\* Wait is called and gets to its select
Wait(s) ==
    /\ execs[s].wait = "none"
    /\ execs' = [execs EXCEPT ![s].wait = "select"]
    /\ UNCHANGED Pods
    /\ UNCHANGED ConfigStore

\* the context of Wait is cancelled
Cancel(s) ==
    /\ execs[s].wait # "returned"
    /\ execs[s].ctx = "live"
    /\ execs' = [execs EXCEPT ![s].ctx = "cancelled"]
    /\ UNCHANGED Pods
    /\ UNCHANGED ConfigStore

\* the select of Wait, case <-ctx.Done(): Wait returns the error of the context
WaitDone(s) ==
    /\ execs[s].wait = "select"
    /\ execs[s].ctx = "cancelled"
    /\ execs' = [execs EXCEPT ![s].wait = "returned", ![s].code = 0,
                              ![s].err = "cancelled"]
    /\ UNCHANGED Pods
    /\ UNCHANGED ConfigStore

\* WaitEnd as it would be if the sessions of a pod shared one channel
WaitEndShared(s) ==
    /\ execs[s].wait = "select"
    /\ \E t \in DOMAIN execs :
          /\ execs[t].copy = "send"
          /\ execs' = [execs EXCEPT ![t].copy = "done", ![s].wait = "inspect"]
    /\ UNCHANGED Pods
    /\ UNCHANGED ConfigStore

\* WaitEnd as it would be if Wait did not wait for the goroutine
WaitEndEarly(s) ==
    /\ execs[s].wait = "select"
    /\ execs' = [execs EXCEPT ![s].wait = "inspect"]
    /\ UNCHANGED Pods
    /\ UNCHANGED ConfigStore

\* the select of Wait, case <-e.endCh: the channel has no buffer, so the
\* goroutine sends and ends when Wait receives; the value is dropped
WaitEnd(s) ==
    /\ execs[s].wait = "select"
    /\ execs[s].copy = "send"
    /\ execs' = [execs EXCEPT ![s].wait = "inspect", ![s].copy = "done"]
    /\ UNCHANGED Pods
    /\ UNCHANGED ConfigStore

\* Inspected as it would be if the loop of Wait went on whatever the answer
InspectedForever(e, fails) == e
\* Inspected as it would be if Wait took the first answer for the last one
InspectedEarly(e, fails) ==
    [e EXCEPT !.wait = "returned", !.code = e.exitCode, !.err = "nil", !.hresp = "closed"]
\* one turn of the loop of Wait on the session e: ContainerExecInspect fails
\* and Wait returns -1 and the error; or the exec still runs and Wait sleeps;
\* or it has ended, and Wait closes the connection and returns the exit code
Inspected(e, fails) ==
    IF fails
    THEN [e EXCEPT !.wait = "returned", !.code = -1, !.err = "inspect"]
    ELSE IF e.running
    THEN e
    ELSE [e EXCEPT !.wait = "returned", !.code = e.exitCode, !.err = "nil",
                   !.hresp = "closed"]
\* ContainerExecInspect may fail, and does when the context is cancelled
ExecInspect(s) ==
    /\ execs[s].wait = "inspect"
    /\ \E fails \in {TRUE, execs[s].ctx = "cancelled"} :
          execs' = [execs EXCEPT ![s] = Inspected(execs[s], fails)]
    /\ UNCHANGED Pods
    /\ UNCHANGED ConfigStore

\* ---------------------------------------------------------------- behaviours
\* the steps of a NewPod call
NewPodStep ==
    \/ createToolboxVolume
    \/ seedToolboxVolume
    \/ createProjectVolume
    \/ createContainer
    \/ ContainerStart
    \/ NewPodList

\* pods are built and found again, in a runtime that others use too
Next ==
    \/ \E podConfig \in PodConfigs : NewPod(podConfig)
    \/ NewPodStep
    \/ ContainerExit
    \/ ForeignCreate
    \/ \E all \in BOOLEAN : GetPods(all)

Spec == Init /\ [][Next]_vars

\* a pod is built, found again, stopped and removed
NextTeardown ==
    \/ \E podConfig \in PodConfigs : NewPod(podConfig)
    \/ NewPodStep
    \/ ContainerExit
    \/ \E all \in BOOLEAN : GetPods(all)
    \/ \E dp \in HeldPods : Stop(dp)
    \/ \E dp \in HeldPods : Remove(dp)

SpecTeardown == Init /\ [][NextTeardown]_vars

\* a pod is built, found again, stopped and removed in a runtime that the
\* driver of another executor uses too
NextShared ==
    \/ \E podConfig \in PodConfigs : NewPod(podConfig)
    \/ NewPodStep
    \/ OtherDriverCreate
    \/ \E all \in BOOLEAN : GetPods(all)
    \/ \E dp \in HeldPods : Stop(dp)
    \/ \E dp \in HeldPods : Remove(dp)

SpecShared == Init /\ [][NextShared]_vars

\* a pod is built and found again, commands are run in its containers
NextExec ==
    \/ \E podConfig \in PodConfigs : NewPod(podConfig)
    \/ NewPodStep
    \/ \E all \in BOOLEAN : GetPods(all)
    \/ \E dp \in HeldPods, execConfig \in ExecConfigs :
            Len(execs) < MaxExecs /\ Exec(dp, execConfig)
    \/ \E s \in DOMAIN execs : CopyEnds(s)
    \/ \E s \in DOMAIN execs : ExecExits(s)
    \/ \E s \in DOMAIN execs : StdinClose(s)
    \/ \E s \in DOMAIN execs : Wait(s)
    \/ \E s \in DOMAIN execs : Cancel(s)
    \/ \E s \in DOMAIN execs : WaitDone(s)
    \/ \E s \in DOMAIN execs : WaitEnd(s)
    \/ \E s \in DOMAIN execs : ExecInspect(s)

SpecExec == Init /\ [][NextExec]_vars

\* a pod of two containers is built, commands are run in its containers in
\* sessions that go on side by side
SessionPodConfig ==
    [ID |-> "p1", TaskID |-> "t1", InitVolumeDir |-> InitVolumeDir,
     Containers |-> <<[Name |-> "", Image |-> TaskImage, Volumes |-> <<>>],
                      [Name |-> "db", Image |-> TaskImage, Volumes |-> <<>>]>>]
NextSession ==
    \/ NewPod(SessionPodConfig)
    \/ NewPodStep
    \/ \E dp \in HeldPods, execConfig \in ExecConfigs :
            Len(execs) < MaxSessions /\ Exec(dp, execConfig)
    \/ \E s \in DOMAIN execs : CopyEnds(s)
    \/ \E s \in DOMAIN execs : ExecExits(s)
    \/ \E s \in DOMAIN execs : StdinClose(s)
    \/ \E s \in DOMAIN execs : Wait(s)
    \/ \E s \in DOMAIN execs : Cancel(s)
    \/ \E s \in DOMAIN execs : WaitDone(s)
    \/ \E s \in DOMAIN execs : WaitEnd(s)
    \/ \E s \in DOMAIN execs : ExecInspect(s)

SpecSession == Init /\ [][NextSession]_vars

\* one session at a time is followed to its end: the goroutine of Exec and a
\* call of Wait that has begun are scheduled, the stream of the exec ends and
\* its process exits; nothing makes the caller call Wait, close stdin or
\* cancel the context
NextWait ==
    \/ NewPod(SessionPodConfig)
    \/ NewPodStep
    \/ \E dp \in HeldPods, execConfig \in ExecConfigs :
            Len(execs) < MaxExecs /\ Exec(dp, execConfig)
    \/ \E s \in DOMAIN execs : CopyEnds(s)
    \/ \E s \in DOMAIN execs : ExecExits(s)
    \/ \E s \in DOMAIN execs : StdinClose(s)
    \/ \E s \in DOMAIN execs : Wait(s)
    \/ \E s \in DOMAIN execs : Cancel(s)
    \/ \E s \in DOMAIN execs : WaitDone(s)
    \/ \E s \in DOMAIN execs : WaitEnd(s)
    \/ \E s \in DOMAIN execs : ExecInspect(s)

FairWait ==
    \A s \in 1..MaxExecs :
        /\ WF_vars(s \in DOMAIN execs /\ CopyEnds(s))
        /\ WF_vars(s \in DOMAIN execs /\ ExecExits(s))
        /\ WF_vars(s \in DOMAIN execs /\ WaitDone(s))
        /\ WF_vars(s \in DOMAIN execs /\ WaitEnd(s))
        /\ WF_vars(s \in DOMAIN execs /\ ExecInspect(s))

SpecWait == Init /\ [][NextWait]_vars /\ FairWait

\* a pod is built, under a context that may be cancelled at any time
NextCancel ==
    \/ \E podConfig \in PodConfigs : NewPod(podConfig)
    \/ NewPodStep
    \/ CancelNewPod

SpecCancel == Init /\ [][NextCancel]_vars

\* a pod is built by a driver of any configuration, from container configs
\* with volumes, on a runtime that holds any of the images
NextBuild ==
    \/ \E podConfig \in BuildPodConfigs : NewPod(podConfig)
    \/ NewPodStep

SpecBuild == InitBuild /\ [][NextBuild]_vars

\* ---------------------------------------------------------------- config store
\* the users' part of the ActionHandler of the config store. Every call runs
\* its reads and writes in one transaction (h.d.Do): it is one step, and a
\* call that returns an error leaves the store as it was. Organisation
\* members, invitations and user tokens are not followed: no call here makes
\* one.
\* the IDs that the store gives to new objects, in the order of their making
UUIDs == <<"id1", "id2", "id3", "id4", "id5", "id6", "id7", "id8", "id9", "id10">>
\* the ID of the n-th object that the ActionHandler makes (a fresh UUID)
NewID(n) == UUIDs[n]
UserNames == {"", "alice", "bob", "-bad"}
\* util.ValidateName
ValidateName(name) == name \in {"alice", "bob"}
\* the remote sources of the store; no call here makes or removes one
RemoteSources == {[ID |-> "rs-github", Name |-> "github"], [ID |-> "rs-gitlab", Name |-> "gitlab"]}
RemoteSourceNames == {"", "github", "gitlab", "nosuch"}
RemoteUserIDs == {"r1", "r2"}
\* the user references of a request: a name or the ID of a stored user
UserRefs == {"", "alice", "bob"} \cup {u.ID : u \in users}
LinkedAccountIDs == {"", "nosuch"} \cup {la.ID : la \in linkedAccounts}

\* the lookups of the store; the empty set stands for nil
GetUserByNameNone(us, name) == {}
GetUserByName(us, name) == {u \in us : u.Name = name}
GetUser(us, userRef) == {u \in us : u.ID = userRef \/ u.Name = userRef}
GetRemoteSourceByName(name) == {rs \in RemoteSources : rs.Name = name}
GetRemoteSource(id) == {rs \in RemoteSources : rs.ID = id}
GetLinkedAccountByRemoteUserIDandSource(las, remoteUserID, remoteSourceID) ==
    {la \in las : la.RemoteUserID = remoteUserID /\ la.RemoteSourceID = remoteSourceID}
GetLinkedAccount(las, laID) == {la \in las : la.ID = laID}

User(id, name) == [ID |-> id, Name |-> name]
ProjectGroup(id, userID) == [ID |-> id, Parent |-> [Kind |-> "user", ID |-> userID]]
LinkedAccount(id, userID, remoteSourceID, remoteUserID) ==
    [ID |-> id, UserID |-> userID, RemoteSourceID |-> remoteSourceID,
     RemoteUserID |-> remoteUserID]

\* the requests; CreateUserLARequest of a CreateUserRequest is a pointer:
\* <<>> for nil, <<r>> for a request r
CreateUserLARequests ==
    [UserRef : UserRefs, RemoteSourceName : RemoteSourceNames, RemoteUserID : RemoteUserIDs]
CreateUserRequests ==
    [UserName : UserNames,
     CreateUserLARequest : {<<>>} \cup {<<r>> : r \in {q \in CreateUserLARequests : q.UserRef = ""}}]
UpdateUserRequests == [UserRef : UserRefs, UserName : {"", "alice", "bob"}]
UpdateUserLARequests ==
    [UserRef : UserRefs, LinkedAccountID : LinkedAccountIDs, RemoteUserID : RemoteUserIDs]

\* the call returns the error r.err and the store is as it was
Refuse(r) ==
    /\ actionRes' = r
    /\ UNCHANGED <<users, projectGroups, linkedAccounts, nids>>

\* CreateUser: the name is checked; in the transaction a user of that name,
\* a missing remote source or a linked account of the same remote user in
\* that source refuse the call; else the user, its root project group and
\* its linked account if one is asked for are inserted
CreateUser(req) ==
    /\ LET hasLA == req.CreateUserLARequest # <<>>
           lareq == IF hasLA THEN req.CreateUserLARequest[1]
                    ELSE [UserRef |-> "", RemoteSourceName |-> "", RemoteUserID |-> ""]
           r(err) == ActionResult("CreateUser", "", req.UserName, "",
                                  lareq.RemoteSourceName, lareq.RemoteUserID, err)
           rs == GetRemoteSourceByName(lareq.RemoteSourceName)
       IN IF req.UserName = "" \/ ~ValidateName(req.UserName)
          THEN Refuse(r("badrequest"))
          ELSE \/ \* the store fails
                  Refuse(r("internal"))
               \/ IF GetUserByName(users, req.UserName) # {}
                  THEN Refuse(r("badrequest"))
                  ELSE IF hasLA /\ rs = {}
                  THEN Refuse(r("badrequest"))
                  ELSE IF /\ hasLA
                          /\ \E s \in rs : GetLinkedAccountByRemoteUserIDandSource(
                                              linkedAccounts, lareq.RemoteUserID, s.ID) # {}
                  THEN Refuse(r("badrequest"))
                  ELSE /\ users' = users \cup {User(NewID(nids + 1), req.UserName)}
                       /\ projectGroups' = projectGroups \cup
                             {ProjectGroup(NewID(nids + 2), NewID(nids + 1))}
                       /\ linkedAccounts' = linkedAccounts \cup
                             (IF hasLA
                              THEN {LinkedAccount(NewID(nids + 3), NewID(nids + 1), s.ID,
                                                  lareq.RemoteUserID) : s \in rs}
                              ELSE {})
                       /\ nids' = nids + (IF hasLA THEN 3 ELSE 2)
                       /\ actionRes' = r("nil")
    /\ UNCHANGED DockerState

\* DeleteUser: the linked accounts of the user and the user are deleted
DeleteUser(userRef) ==
    /\ LET r(err) == ActionResult("DeleteUser", userRef, "", "", "", "", err)
           found == GetUser(users, userRef)
       IN \/ Refuse(r("internal"))
          \/ IF found = {}
             THEN Refuse(r("badrequest"))
             ELSE \E user \in found :
                     /\ linkedAccounts' = {la \in linkedAccounts : la.UserID # user.ID}
                     /\ users' = users \ {user}
                     /\ actionRes' = r("nil")
                     /\ UNCHANGED <<projectGroups, nids>>
    /\ UNCHANGED DockerState

\* UpdateUser: a name that is asked for and that a user holds refuses the
\* call; else the user gets the name, or keeps its own when none is asked
UpdateUser(req) ==
    /\ LET r(err) == ActionResult("UpdateUser", req.UserRef, req.UserName, "", "", "", err)
           found == GetUser(users, req.UserRef)
       IN \/ Refuse(r("internal"))
          \/ IF found = {}
             THEN Refuse(r("badrequest"))
             ELSE IF req.UserName # "" /\ GetUserByName(users, req.UserName) # {}
             THEN Refuse(r("badrequest"))
             ELSE \E user \in found :
                     /\ users' = (users \ {user}) \cup
                           {[user EXCEPT !.Name = IF req.UserName # "" THEN req.UserName
                                                  ELSE user.Name]}
                     /\ actionRes' = r("nil")
                     /\ UNCHANGED <<projectGroups, linkedAccounts, nids>>
    /\ UNCHANGED DockerState

\* CreateUserLA: a missing user or remote source, or a linked account of the
\* same remote user in that source, refuse the call; else the account is
\* inserted
CreateUserLA(req) ==
    /\ LET r(err) == ActionResult("CreateUserLA", req.UserRef, "", "",
                                  req.RemoteSourceName, req.RemoteUserID, err)
           found == GetUser(users, req.UserRef)
           rs == GetRemoteSourceByName(req.RemoteSourceName)
       IN IF req.UserRef = "" \/ req.RemoteSourceName = ""
          THEN Refuse(r("badrequest"))
          ELSE \/ Refuse(r("internal"))
               \/ IF found = {} \/ rs = {}
                  THEN Refuse(r("badrequest"))
                  ELSE IF \E s \in rs : GetLinkedAccountByRemoteUserIDandSource(
                                           linkedAccounts, req.RemoteUserID, s.ID) # {}
                  THEN Refuse(r("badrequest"))
                  ELSE \E user \in found, s \in rs :
                          /\ linkedAccounts' = linkedAccounts \cup
                                {LinkedAccount(NewID(nids + 1), user.ID, s.ID, req.RemoteUserID)}
                          /\ nids' = nids + 1
                          /\ actionRes' = r("nil")
                          /\ UNCHANGED <<users, projectGroups>>
    /\ UNCHANGED DockerState

\* DeleteUserLA: the linked account of that ID is deleted when it is one of
\* the user
DeleteUserLA(userRef, laID) ==
    /\ LET r(err) == ActionResult("DeleteUserLA", userRef, "", laID, "", "", err)
           found == GetUser(users, userRef)
           las == GetLinkedAccount(linkedAccounts, laID)
       IN IF userRef = "" \/ laID = ""
          THEN Refuse(r("badrequest"))
          ELSE \/ Refuse(r("internal"))
               \/ IF found = {} \/ las = {}
                  THEN Refuse(r("badrequest"))
                  ELSE \E user \in found, la \in las :
                          IF user.ID # la.UserID
                          THEN Refuse(r("badrequest"))
                          ELSE /\ linkedAccounts' = linkedAccounts \ {la}
                               /\ actionRes' = r("nil")
                               /\ UNCHANGED <<users, projectGroups, nids>>
    /\ UNCHANGED DockerState

\* UpdateUserLA: the linked account of that ID, when it is one of the user and
\* its remote source is there, gets the remote user ID of the request
UpdateUserLA(req) ==
    /\ LET r(err) == ActionResult("UpdateUserLA", req.UserRef, "", req.LinkedAccountID,
                                  "", req.RemoteUserID, err)
           found == GetUser(users, req.UserRef)
           las == GetLinkedAccount(linkedAccounts, req.LinkedAccountID)
       IN IF req.UserRef = ""
          THEN Refuse(r("badrequest"))
          ELSE \/ Refuse(r("internal"))
               \/ IF found = {} \/ las = {}
                  THEN Refuse(r("badrequest"))
                  ELSE \E user \in found, la \in las :
                          IF user.ID # la.UserID \/ GetRemoteSource(la.RemoteSourceID) = {}
                          THEN Refuse(r("badrequest"))
                          ELSE /\ linkedAccounts' = (linkedAccounts \ {la}) \cup
                                     {[la EXCEPT !.RemoteUserID = req.RemoteUserID]}
                               /\ actionRes' = r("nil")
                               /\ UNCHANGED <<users, projectGroups, nids>>
    /\ UNCHANGED DockerState

\* the calls of the ActionHandler on users and linked accounts, in any order
NextUsers ==
    \/ \E req \in CreateUserRequests : nids < MaxIDs /\ CreateUser(req)
    \/ \E userRef \in UserRefs : DeleteUser(userRef)
    \/ \E req \in UpdateUserRequests : UpdateUser(req)
    \/ \E req \in CreateUserLARequests : nids < MaxIDs /\ CreateUserLA(req)
    \/ \E userRef \in UserRefs, laID \in LinkedAccountIDs : DeleteUserLA(userRef, laID)
    \/ \E req \in UpdateUserLARequests : UpdateUserLA(req)

SpecUsers == Init /\ [][NextUsers]_vars

\* ---------------------------------------------------------------- claims
\* the containers of a Pod as pairs of runtime ID and index
Members(dp) ==
    {<<dp.containers[i].Container.ID, dp.containers[i].Index>>
        : i \in DOMAIN dp.containers}
\* the task containers that NewPod call n created and that are in the runtime
CreatedBy(n) == {c \in containers : c.by = n /\ HasKey(c.Labels, podIDKey)}
Declared == Len(newPodRes.podConfig.Containers)

\* C1: a Pod that NewPod returns for a PodConfig of N containers has exactly
\* N containers, of the indices 0..N-1 in ascending order (so a discovery
\* that lists another number of containers is an error)
C1_PodHasDeclaredContainers ==
    newPodRes.status = "ok" =>
        /\ Len(newPodRes.pod.containers) = Declared
        /\ \A i \in 1..Declared : newPodRes.pod.containers[i].Index = i - 1

\* C2: a NewPod that returns an error leaves no container labelled with the
\* pod ID in the runtime, and a GetPods after it returns no Pod of that ID
C2_FailedNewPodLeavesNothing ==
    /\ (res.op = "NewPod" /\ res.out = "err") => CreatedBy(newPodRes.n) = {}
    /\ (res.op = "GetPods" /\ res.after = "NewPodFailed") =>
          \A q \in res.pods :
              ID(q) = newPodRes.podConfig.ID =>
                  \A i \in DOMAIN q.containers :
                      q.containers[i].Container.by # newPodRes.n

\* the number of containers that a NewPod that failed had created
CreatedBeforeFailure ==
    CASE newPodRes.at = "createContainer" -> newPodRes.cindex
      [] newPodRes.at = "ContainerStart" -> newPodRes.cindex + 1
      [] newPodRes.at \in {"ContainerList", "discovery"} -> Declared
      [] OTHER -> 0
\* C2, amended: a NewPod that returns an error undoes nothing. The containers
\* it created are still in the runtime when it returns, with the labels of
\* the pod: none only when it failed before it created container 0; and when
\* there are some, a GetPods(all) that follows and returns, returns a Pod of
\* that ID with them
C2_FailedNewPodKeepsContainers ==
    /\ (res.op = "NewPod" /\ res.out = "err") =>
          /\ Cardinality(CreatedBy(newPodRes.n)) = CreatedBeforeFailure
          /\ \A c \in CreatedBy(newPodRes.n) :
                c.Labels[podIDKey] = newPodRes.podConfig.ID
    /\ (res.op = "GetPods" /\ res.after = "NewPodFailed" /\ res.out = "ok"
            /\ res.all /\ CreatedBy(newPodRes.n) # {}) =>
          \E q \in res.pods :
              /\ ID(q) = newPodRes.podConfig.ID
              /\ \A c \in CreatedBy(newPodRes.n) :
                    \E i \in DOMAIN q.containers : q.containers[i].Container.ID = c.ID
C2_Witness ==
    /\ res.op = "GetPods" /\ res.after = "NewPodFailed" /\ res.out = "ok" /\ res.all
    /\ newPodRes.at = "createContainer" /\ newPodRes.cindex = 1
    /\ \E q \in res.pods :
          /\ ID(q) = newPodRes.podConfig.ID
          /\ \E i \in DOMAIN q.containers :
                q.containers[i].Container.by = newPodRes.n

\* the index label of a container is there and is a decimal number
IndexLabelOK(labels) ==
    HasKey(labels, containerIndexKey) /\ Atoi(labels[containerIndexKey]).ok
\* C3: GetPods returns normally, and without the pods that have a container
\* whose containerIndex label is missing or is no decimal number
C3_GetPodsDropsTaintedPods ==
    res.op = "GetPods" =>
        /\ res.out # "panic"
        /\ \A q \in res.pods : \A i \in DOMAIN q.containers :
              IndexLabelOK(q.containers[i].Container.Labels)

\* C4: the GetPods(all) after a NewPod that returned a Pod yields a Pod of
\* the same ID, the same task ID (that of the PodConfig) and the same
\* containers
C4_GetPodsAfterNewPod ==
    (res.op = "GetPods" /\ res.after = "NewPod" /\ res.all /\ res.out = "ok") =>
        \E q \in res.pods :
            /\ ID(q) = ID(newPodRes.pod)
            /\ TaskID(q) = TaskID(newPodRes.pod)
            /\ TaskID(newPodRes.pod) = newPodRes.podConfig.TaskID
            /\ Members(q) = Members(newPodRes.pod)

\* C5: Exec with the empty container name, on a Pod of NewPod or of GetPods,
\* finds the container of index 0
C5_ExecEmptyNameIsMain ==
    (res.op = "Exec" /\ res.name = "") =>
        /\ res.out # "notfound"
        /\ res.pod.containersMap[""].Index = 0

\* C6: in a Pod that NewPod returns the empty name is the container whose
\* containerIndex label is 0
C6_EmptyNameIsIndexZero ==
    newPodRes.status = "ok" =>
        /\ HasKey(newPodRes.pod.containersMap, "")
        /\ newPodRes.pod.containersMap[""].Index = 0
        /\ newPodRes.pod.containersMap[""].Container.Labels[containerIndexKey] = "0"

\* the requests that Stop and Remove are to make on a Pod, in order
ExpectedStops(dp) ==
    [i \in 1..Len(dp.containers) |->
        [call |-> "ContainerStop", id |-> dp.containers[i].Container.ID,
         timeout |-> 1, force |-> FALSE]]
ExpectedRemoves(dp) ==
    [i \in 1..Len(dp.containers) |->
        [call |-> "ContainerRemove", id |-> dp.containers[i].Container.ID,
         timeout |-> 0, force |-> TRUE]]
    \o (IF dp.toolboxVolumeName # 0
        THEN <<[call |-> "VolumeRemove", id |-> dp.toolboxVolumeName,
                timeout |-> 0, force |-> TRUE]>>
        ELSE <<>>)
    \o (IF dp.projectVolumeName # 0
        THEN <<[call |-> "VolumeRemove", id |-> dp.projectVolumeName,
                timeout |-> 0, force |-> TRUE]>>
        ELSE <<>>)
\* C8: Stop asks the runtime to stop every container of the Pod (timeout 1
\* second), Remove to force-remove every container and then the toolbox and
\* the project volume that the Pod has (a Pod of NewPod has both), each once
\* and whatever failed before; each returns an error exactly when a request
\* failed
C8_StopRemoveAskForEverything ==
    /\ res.op = "Stop" =>
          /\ res.reqs = ExpectedStops(res.pod)
          /\ (res.out = "err") <=> (res.failed # {})
    /\ res.op = "Remove" =>
          /\ res.reqs = ExpectedRemoves(res.pod)
          /\ (res.out = "err") <=> (res.failed # {})
    /\ res.op \in {"Stop", "Remove"} =>
          \A i, j \in DOMAIN res.pod.containers :
              res.pod.containers[i].Container.ID = res.pod.containers[j].Container.ID
                  => i = j
    /\ (res.op = "Remove" /\ newPodRes.status = "ok" /\ res.pod = newPodRes.pod) =>
          Len(res.reqs) = Len(res.pod.containers) + 2
C8_Witness ==
    /\ res.op = "Remove"
    /\ res.out = "err"
    /\ res.failed = {1}
    /\ Len(res.pod.containers) = 2
    /\ Len(res.reqs) = 4
    /\ res.pod.toolboxVolumeName # 0
    /\ ~VolumeExists(volumes, res.pod.projectVolumeName)

\* C9: a second Remove of a Pod, after a Remove of it in which nothing
\* failed, returns an error and leaves the containers and the volumes of the
\* runtime as they are
C9_SecondRemoveChangesNothing ==
    [][\A dp \in HeldPods :
          (res.op = "Remove" /\ res.out = "ok" /\ res.pod = dp /\ Remove(dp)) =>
              (res'.out = "err" /\ containers' = containers /\ volumes' = volumes)]_vars
C9_Witness ==
    /\ res.op = "Remove"
    /\ res.after = "Remove"
    /\ res.out = "err"
    /\ Len(res.pod.containers) = 2
    /\ \A i \in DOMAIN res.pod.containers :
          ~Exists(containers, res.pod.containers[i].Container.ID)

\* C10: after a NewPod that returned a Pod, a Stop and a Remove of the Pod
\* in which no request failed leave no container and no volume of the pod in
\* the runtime, and the GetPods(all) that follows returns no Pod of that ID
C10_StopRemoveLeavesNothing ==
    /\ (res.op = "Remove" /\ res.out = "ok" /\ res.after = "Stop"
            /\ newPodRes.status = "ok" /\ res.pod = newPodRes.pod) =>
          /\ CreatedBy(newPodRes.n) = {}
          /\ \A v \in volumes : v.by # newPodRes.n
    /\ (res.op = "GetPods" /\ res.after = "StopRemove" /\ res.out = "ok"
            /\ newPodRes.status = "ok" /\ res.pod = newPodRes.pod) =>
          \A q \in res.pods : ID(q) # ID(newPodRes.pod)

\* C7: when the context of Wait was cancelled while the copy had not ended
\* and Wait has returned, it has returned the error of the cancellation and
\* the attached connection is closed
C7_CancelledWaitClosesConnection ==
    \A s \in DOMAIN execs :
        (execs[s].wait = "returned" /\ execs[s].ctx = "cancelled"
                /\ execs[s].copy = "copy") =>
            /\ execs[s].err = "cancelled"
            /\ execs[s].hresp = "closed"

\* a container of a Pod has the labels of the driver and of the pod
OwnContainers(dp) ==
    \A i \in DOMAIN dp.containers :
        LET labels == dp.containers[i].Container.Labels
        IN /\ HasKey(labels, executorIDKey) /\ labels[executorIDKey] = ExecutorID
           /\ HasKey(labels, podIDKey) /\ labels[podIDKey] = ID(dp)
\* the containers and volumes in the runtime with the labels of another executor
OfOthers(objects) ==
    {o \in objects : HasKey(o.Labels, executorIDKey)
                        /\ o.Labels[executorIDKey] # ExecutorID}
\* C11: in a runtime that the driver of another executor uses too, every
\* container of a Pod that NewPod or GetPods returns has this driver's
\* executorID and the Pod's podID, and no request of Stop or Remove (the
\* steps that leave a new result of a Stop or Remove) is for a container or
\* a volume of the other executor, whose objects stay as they are
C11_OnlyOwnObjects ==
    /\ [](/\ newPodRes.status = "ok" => OwnContainers(newPodRes.pod)
          /\ res.op = "GetPods" => \A q \in res.pods : OwnContainers(q))
    /\ [][(res'.op \in {"Stop", "Remove"} /\ res' # res) =>
            /\ \A i \in DOMAIN res'.reqs :
                  /\ res'.reqs[i].call \in {"ContainerStop", "ContainerRemove"} =>
                        \A c \in OfOthers(containers) : c.ID # res'.reqs[i].id
                  /\ res'.reqs[i].call = "VolumeRemove" =>
                        \A v \in OfOthers(volumes) : v.Name # res'.reqs[i].id
            /\ OfOthers(containers') = OfOthers(containers)
            /\ OfOthers(volumes') = OfOthers(volumes)]_vars
C11_Witness ==
    /\ res.op = "Remove" /\ res.out = "ok" /\ res.after = "Stop"
    /\ \E o \in OfOthers(containers) \cup OfOthers(volumes) :
          o.Labels[podIDKey] = ID(res.pod)
    /\ \A c \in containers : c.by = 0
    /\ volumes \subseteq OfOthers(volumes)

\* the containers of a Pod have indices that differ
DistinctIndices(dp) ==
    \A i, j \in DOMAIN dp.containers :
        dp.containers[i].Index = dp.containers[j].Index => i = j
\* C12: the containers of a Pod that NewPod or GetPods returns have pairwise
\* distinct indices (NewPod returns an error when its discovery lists two
\* containers of one index)
C12_IndicesAreUnique ==
    /\ newPodRes.status = "ok" => DistinctIndices(newPodRes.pod)
    /\ res.op = "GetPods" => \A q \in res.pods : DistinctIndices(q)

\* the containers of the config that a NewPod call created
TaskContainers == {c \in containers : c.by > 0 /\ HasKey(c.Labels, containerIndexKey)}
\* C13: a container of index above 0 that NewPod created has the network mode
\* container:<ID> of the container of index 0 that the same call created, and
\* the container of index 0 has no network mode of that kind
C13_SidecarsJoinMainNetwork ==
    \A c \in TaskContainers :
        IF c.Labels[containerIndexKey] = "0"
        THEN c.NetworkMode = <<>> \/ c.NetworkMode[1] # "container"
        ELSE \E m \in TaskContainers :
                /\ m.by = c.by
                /\ m.Labels[containerIndexKey] = "0"
                /\ c.NetworkMode = <<"container", m.ID>>
C13_Witness ==
    \E c \in TaskContainers :
        /\ c.Labels[containerIndexKey] = "1"
        /\ c.State = "running"
        /\ c.NetworkMode # <<>>

\* the NewPod call in progress, or else the last one, and its PodConfig
CallNumber == IF call.pc # "idle" THEN call.n ELSE newPodRes.n
CallConfig == IF call.pc # "idle" THEN call.podConfig ELSE newPodRes.podConfig
\* the name of a container: the declared one, main for an unnamed index 0
ResolvedName(c) ==
    LET index == Atoi(c.Labels[containerIndexKey]).v
        name == CallConfig.Containers[index + 1].Name
    IN IF name = "" /\ index = 0 THEN "main" ELSE name
\* the volume of the call that created c with the volumeName label name
PodVolume(c, name) ==
    CHOOSE v \in volumes : v.by = c.by /\ v.Labels[volumeNameKey] = name
HasMount(c, source, target, readOnly) ==
    \E i \in DOMAIN c.Mounts :
        c.Mounts[i] = [Type |-> "volume", Source |-> source, Target |-> target,
                       ReadOnly |-> readOnly]
\* C14: a container that NewPod created and whose name (the declared one, or
\* main for index 0) is not empty mounts the toolbox volume of the pod
\* read-only at PodConfig.InitVolumeDir and its project volume read-write at
\* the project directory; one with the empty name mounts nothing
C14_NamedContainersMountVolumes ==
    \A c \in TaskContainers :
        c.by = CallNumber =>
            IF ResolvedName(c) # ""
            THEN /\ HasMount(c, PodVolume(c, "toolbox").Name,
                             CallConfig.InitVolumeDir, TRUE)
                 /\ HasMount(c, PodVolume(c, "project").Name, "/project", FALSE)
                 /\ Len(c.Mounts) = 2
            ELSE c.Mounts = <<>>
C14_Witness ==
    /\ \E c \in TaskContainers :
          c.by = CallNumber /\ ResolvedName(c) = "main" /\ Len(c.Mounts) = 2
    /\ \E c \in TaskContainers :
          c.by = CallNumber /\ ResolvedName(c) = "" /\ c.Mounts = <<>>

\* the requests of the call that are about image, and those that create or
\* start the container of index
Pull(image) == Request("ImagePull", image, NoIndex)
CreateOf(index) == Request("ContainerCreate", CallConfig.Containers[index + 1].Image, index)
Requested(request) == \E k \in DOMAIN ops : ops[k] = request
\* C15: every request of NewPod to create a task container comes right after
\* a pull of the image of that container, whether or not the runtime held the
\* image, and every task container of the call was so requested; once the
\* local images are listed, the init image is pulled if and only if the
\* runtime does not hold it or its tag is latest, and at no other time
C15_TaskImagesAlwaysPulled ==
    /\ [](/\ \A k \in DOMAIN ops :
                (ops[k].op = "ContainerCreate" /\ ops[k].index # NoIndex)
                    => /\ k > 1
                       /\ ops[k] = CreateOf(ops[k].index)
                       /\ ops[k - 1] = Pull(ops[k].image)
          /\ \A c \in TaskContainers :
                c.by = CallNumber => Requested(CreateOf(Atoi(c.Labels[containerIndexKey]).v))
          /\ \A k \in DOMAIN ops : ops[k] = Pull(driver.initImage) => k = 2)
    /\ [][(call.pc = "createToolboxVolume" /\ Len(ops') >= 2)
            => (ops'[2] = Pull(driver.initImage)
                    <=> (driver.initImage \notin images
                            \/ GetImageTagOrDigest(driver.initImage) = "latest"))]_vars
\* a pod of two containers is built on a runtime that held both images: the
\* init image is not pulled, the image of the containers is pulled twice
C15_Witness ==
    /\ newPodRes.status = "ok"
    /\ Len(newPodRes.podConfig.Containers) = 2
    /\ ~Requested(Pull(driver.initImage))
    /\ Cardinality({k \in DOMAIN ops : ops[k] = Pull(TaskImage)}) = 2
    /\ Cardinality({c \in TaskContainers : c.by = CallNumber}) = 2

\* C16: NewPod on a config without containers returns an error at once: the
\* call is never under way, the step that returns it changes no container,
\* volume or image, and after it no request was made to the runtime and
\* nothing in the runtime was created by the call
C16_EmptyConfigDoesNothing ==
    /\ [](/\ call.pc # "idle" => Len(call.podConfig.Containers) > 0
          /\ (call.pc = "idle" /\ newPodRes.n > 0 /\ Len(newPodRes.podConfig.Containers) = 0)
                => /\ newPodRes.status = "err"
                   /\ res.out = "err"
                   /\ ops = <<>>
                   /\ \A c \in containers : c.by # newPodRes.n
                   /\ \A v \in volumes : v.by # newPodRes.n)
    /\ [][(ncalls' # ncalls /\ newPodRes'.n = ncalls')
            => /\ Len(newPodRes'.podConfig.Containers) = 0
               /\ containers' = containers
               /\ volumes' = volumes
               /\ images' = images]_vars
C16_Witness ==
    /\ newPodRes.at = "empty"
    /\ newPodRes.n = ncalls
    /\ Len(newPodRes.podConfig.Containers) = 0
    /\ res.op = "NewPod"

\* the containers of the call in the runtime with the index label index
OfIndex(index) ==
    {c \in TaskContainers : c.by = CallNumber /\ c.Labels[containerIndexKey] = Itoa(index)}
\* the first index of the config whose Volumes hold one that is not a tmpfs
NonTmpfs(podConfig, index) ==
    \E vol \in {podConfig.Containers[index + 1].Volumes[i] :
                    i \in DOMAIN podConfig.Containers[index + 1].Volumes} : vol = OtherVolume
Refused(podConfig, index) ==
    /\ index < Len(podConfig.Containers)
    /\ NonTmpfs(podConfig, index)
    /\ \A j \in 0..(index - 1) : ~NonTmpfs(podConfig, j)
\* C17: for a config whose container index has a volume that is not a tmpfs,
\* NewPod never asks the runtime to create or start a container of that or of
\* a later index, the runtime holds none, and the call returns an error
C17_NonTmpfsVolumeIsRefused ==
    \A index \in 0..(MaxN - 1) :
        (CallNumber > 0 /\ Refused(CallConfig, index))
            => /\ \A k \in DOMAIN ops : ops[k].index < index
               /\ \A j \in index..(MaxN - 1) : OfIndex(j) = {}
               /\ call.pc = "idle" => (newPodRes.status = "err" /\ res.out = "err")
               /\ call.pc \in {"ContainerStart", "ContainerList"} => call.cindex < index
\* the second container has the volume: the first was created and started,
\* the image of the second was pulled, and NewPod returned the error
C17_Witness ==
    /\ Refused(newPodRes.podConfig, 1)
    /\ newPodRes.at = "missing volume config"
    /\ newPodRes.cindex = 1
    /\ \E c \in OfIndex(0) : c.State = "running"
    /\ Cardinality({k \in DOMAIN ops : ops[k] = Pull(TaskImage)}) = 2

\* C19: the container of index 0 that NewPod creates is attached to the
\* network of the driver when the driver has one, and has the default network
\* mode of the runtime when it has none
C19_MainContainerOnDriverNetwork ==
    \A c \in TaskContainers :
        c.Labels[containerIndexKey] = "0"
            => c.NetworkMode = IF driver.network # "" THEN <<"network", driver.network>>
                               ELSE <<>>

\* C18: Exec with a container name that is no key of the map of the Pod
\* returns not found, has sent no request to the runtime (no exec is created,
\* none attached) and has started no exec session with its copying goroutine
C18_UnknownNameIsNotFound ==
    /\ []((res.op = "Exec" /\ ~HasKey(res.pod.containersMap, res.name))
            => /\ res.out = "notfound"
               /\ res.execReqs = <<>>
               /\ res.cmd = <<>>)
    /\ [][(res'.op = "Exec" /\ res' # res /\ ~HasKey(res'.pod.containersMap, res'.name))
            => execs' = execs]_vars
\* Exec with the name db on a Pod of running containers that has no db
C18_Witness ==
    /\ res.op = "Exec"
    /\ res.out = "notfound"
    /\ res.name = "db"
    /\ Len(res.pod.containers) > 0
    /\ HasKey(res.pod.containersMap, mainContainerName)
    /\ execs = <<>>

\* C20: the command of an exec that Exec created, on a Pod of NewPod or of
\* GetPods, is <dir>/agola-toolbox exec -e <JSON of Env> -w <WorkingDir> --
\* <Cmd>, where dir is the path at which the target container mounts the
\* toolbox volume of the pod
C20_ExecRunsToolbox ==
    (res.op = "Exec" /\ res.out = "ok") =>
        \E c \in containers :
            /\ c.ID = res.target
            /\ \E i \in DOMAIN c.Mounts :
                  /\ \E v \in volumes :
                        /\ v.Name = c.Mounts[i].Source
                        /\ v.Labels[volumeNameKey] = toolboxVolumeName
                  /\ res.cmd = <<c.Mounts[i].Target \o "/agola-toolbox", "exec", "-e",
                                 "{\"HOME\":\"/root\",\"TERM\":\"xterm\"}",
                                 "-w", "/project/src", "--", "make", "test">>

\* C21: when the copy of a session ended with an error and Wait received its
\* completion, Wait has returned an error
C21_CopyErrorReachesWait ==
    \A s \in DOMAIN execs :
        (execs[s].wait = "returned" /\ execs[s].copy = "done" /\ execs[s].copyErr)
            => execs[s].err # "nil"

\* C22: Wait returns a nil error only from an inspection that reported the
\* exec as not running, with the exit code of that inspection; after a failed
\* inspection it has returned -1 with the error
C22_WaitReturnsInspectedCode ==
    /\ [](\A s \in DOMAIN execs :
            execs[s].wait = "returned"
                => /\ execs[s].err = "nil"
                        => (~execs[s].running /\ execs[s].code = execs[s].exitCode)
                   /\ execs[s].err = "inspect" => execs[s].code = 0 - 1)
    /\ [][\A s \in DOMAIN execs :
            (execs'[s].wait = "returned" /\ execs[s].wait # "returned"
                    /\ execs'[s].err = "nil")
                => /\ execs[s].wait = "inspect"
                   /\ ~execs[s].running
                   /\ execs'[s].code = execs[s].exitCode]_vars
\* one Wait returned the exit code 1, another -1 after a failed inspection of
\* an exec that had ended with the exit code 1
C22_Witness ==
    /\ \E s \in DOMAIN execs :
          /\ execs[s].wait = "returned" /\ execs[s].err = "nil"
          /\ execs[s].code = 1
    /\ \E s \in DOMAIN execs :
          /\ execs[s].wait = "returned" /\ execs[s].err = "inspect"
          /\ ~execs[s].running /\ execs[s].exitCode = 1 /\ execs[s].code = 0 - 1

\* C23: Wait inspects the exec only after the goroutine of the copy has
\* handed over its completion, and the connection is closed only by a Wait
\* that an inspection told that the exec had ended, never while it runs
C23_SessionOrder ==
    /\ [](\A s \in DOMAIN execs :
            /\ (execs[s].wait = "inspect"
                    \/ (execs[s].wait = "returned" /\ execs[s].err \in {"nil", "inspect"}))
                => execs[s].copy = "done"
            /\ execs[s].hresp = "closed"
                => /\ execs[s].wait = "returned" /\ execs[s].err = "nil"
                   /\ ~execs[s].running
                   /\ execs[s].copy = "done")
    /\ [][\A s \in DOMAIN execs :
            (execs'[s].hresp = "closed" /\ execs[s].hresp # "closed")
                => (execs[s].wait = "inspect" /\ ~execs[s].running)]_vars
\* a session went through all of it: copy ended, inspected, closed
C23_Witness ==
    \E s \in DOMAIN execs :
        /\ execs[s].hresp = "closed"
        /\ execs[s].copy = "done"
        /\ execs[s].wait = "returned"
        /\ execs[s].ctx = "live"

\* C24: closing the stream of Stdin() closes the write half of the connection
\* and nothing else: the step leaves the copy, the exec and Wait as they were,
\* the read half is open for as long as the copy reads, and the connection is
\* closed in full only by a Wait that returns the exit code
C24_StdinCloseIsHalfClose ==
    /\ [][\A s \in DOMAIN execs :
            (execs[s].stdin = "open" /\ execs'[s].stdin = "closed")
                => execs'[s] = [execs[s] EXCEPT !.stdin = "closed",
                                                !.hresp = "writeClosed"]]_vars
    /\ [](\A s \in DOMAIN execs :
            /\ execs[s].copy = "copy" => execs[s].hresp # "closed"
            /\ (execs[s].stdin = "closed" /\ execs[s].hresp # "writeClosed")
                => (execs[s].hresp = "closed" /\ execs[s].wait = "returned"
                        /\ execs[s].err = "nil"))
\* the stream of Stdin() was closed while the connection was open, and Wait
\* has returned the exit code 1 of the exec
C24_Witness ==
    \E s \in DOMAIN execs :
        /\ execs[s].stdin = "closed"
        /\ execs[s].wait = "returned"
        /\ execs[s].err = "nil"
        /\ execs[s].code = 1
        /\ ~execs[s].copyErr

\* C25: the sessions of a pod have exec IDs of their own, a step changes at
\* most one session (its completion, the cancellation or the return of its
\* Wait, the close of its Stdin or of its connection leave the others as
\* they were), and a new Exec leaves the sessions that exist untouched
C25_SessionsAreIndependent ==
    /\ [](\A s, t \in DOMAIN execs : s # t => execs[s].execID # execs[t].execID)
    /\ [][/\ Len(execs') >= Len(execs)
          /\ \A s \in DOMAIN execs :
                (execs'[s] # execs[s] \/ Len(execs') > Len(execs))
                    => \A t \in DOMAIN execs : t # s => execs'[t] = execs[t]]_vars
\* two sessions side by side: the Wait of the first was cancelled while its
\* copy goes on and its connection is open, the second ran to its end
C25_Witness ==
    /\ Len(execs) = 2
    /\ execs[1].wait = "returned" /\ execs[1].err = "cancelled"
    /\ execs[1].copy = "copy" /\ execs[1].hresp = "writeClosed"
    /\ execs[2].wait = "returned" /\ execs[2].err = "nil"
    /\ execs[2].hresp = "closed" /\ execs[2].stdin = "open"

\* where in the requests of the call the operation op on index stands, and
\* how many volumes were asked for before the request k
At(op, index) == {k \in DOMAIN ops : ops[k].op = op /\ ops[k].index = index}
VolumesBefore(k) == Cardinality({v \in At("VolumeCreate", NoIndex) : v < k})
Seeding == {"ContainerCreate", "ContainerStart", "CopyToContainer", "ContainerRemove"}
\* C26: the requests of one NewPod come in this order: the toolbox volume,
\* its seeding, the project volume, then for every index in the order of the
\* config the creation and right after it the start of the container, the
\* creation of an index only after the start of the one before; the listing
\* is the last request and comes after all N starts, and a container is in
\* the runtime only with the one before it started
C26_NewPodOrder ==
    /\ Cardinality(At("VolumeCreate", NoIndex)) <= 2
    /\ \A k \in DOMAIN ops :
          /\ (ops[k].op \in Seeding /\ ops[k].index = NoIndex) => VolumesBefore(k) = 1
          /\ (ops[k].op = "VolumeCreate" /\ VolumesBefore(k) = 1)
                => \E j \in At("ContainerRemove", NoIndex) : j < k
          /\ ops[k].index # NoIndex => VolumesBefore(k) = 2
          /\ (ops[k].op = "ContainerStart" /\ ops[k].index # NoIndex)
                => (k > 1 /\ ops[k - 1].op = "ContainerCreate"
                          /\ ops[k - 1].index = ops[k].index)
          /\ (ops[k].op = "ContainerCreate" /\ ops[k].index > 0)
                => \E j \in At("ContainerStart", ops[k].index - 1) : j < k
          /\ ops[k].op = "ContainerList"
                => /\ k = Len(ops)
                   /\ \A index \in 0..(Len(CallConfig.Containers) - 1) :
                         /\ At("ContainerStart", index) # {}
                         /\ \E c \in OfIndex(index) : c.State = "running"
    /\ \A index \in 0..(MaxN - 1) :
          /\ Cardinality(At("ContainerCreate", index)) <= 1
          /\ Cardinality(At("ContainerStart", index)) <= 1
          /\ (index > 0 /\ OfIndex(index) # {})
                => \E c \in OfIndex(index - 1) : c.State = "running"
\* NewPod of two containers has listed them
C26_Witness ==
    /\ newPodRes.status = "ok"
    /\ Len(newPodRes.podConfig.Containers) = 2
    /\ ops[Len(ops)].op = "ContainerList"
    /\ At("ContainerStart", 1) # {}
    /\ Cardinality(At("VolumeCreate", NoIndex)) = 2

\* the volumes of the runtime that this driver labelled with podID and name,
\* and the containers that it labelled with podID
VolumesOf(vols, podID, name) ==
    {v \in vols : /\ v.Labels[executorIDKey] = ExecutorID
                  /\ v.Labels[podIDKey] = podID
                  /\ v.Labels[volumeNameKey] = name}
ContainersOf(cs, podID) ==
    {c \in cs : /\ HasKey(c.Labels, executorIDKey) /\ c.Labels[executorIDKey] = ExecutorID
                /\ HasKey(c.Labels, podIDKey) /\ c.Labels[podIDKey] = podID}
\* the pod ID of the last NewPod is the ID of its pod alone: nothing in the
\* runtime carries it that another call created
OwnPodID ==
    /\ \A c \in ContainersOf(containers, newPodRes.podConfig.ID) : c.by = newPodRes.n
    /\ \A v \in volumes : v.Labels[podIDKey] = newPodRes.podConfig.ID => v.by = newPodRes.n
CancelledStep ==
    (call.ctx = "cancelled" /\ call' # call)
        => /\ call'.pc = "idle"
           /\ newPodRes'.status = "err" /\ res'.out = "err"
           /\ Len(ops') = Len(ops) + 1
           /\ containers' = containers
           /\ volumes' = volumes
\* C28 as stated: once the context is cancelled NewPod makes no request but
\* the one at which it returns its error, creates and starts nothing more
\* and removes nothing
C28_CancelledNewPodFailsAtNextCall ==
    /\ []((call.pc # "idle" /\ call.ctx = "cancelled") => Len(ops) = call.cancelAt)
    /\ [][CancelledStep]_vars
\* C28: once the context is cancelled NewPod returns an error at its next
\* request to the runtime, or at the one after it when the next is the
\* removal of the helper of the toolbox volume, whose error it ignores; it
\* creates and starts nothing more and removes nothing
C28_CancelledNewPodStops ==
    /\ []((call.pc # "idle" /\ call.ctx = "cancelled")
            => \/ Len(ops) = call.cancelAt
               \/ /\ Len(ops) = call.cancelAt + 1
                  /\ ops[Len(ops)].op = "ContainerRemove"
                  /\ call.pc = "createProjectVolume")
    /\ [][CancelledStep]_vars
\* the context was cancelled once the toolbox was copied: the removal of the
\* helper has failed, the call goes on to the project volume with the helper
\* and the toolbox volume still in the runtime
C28_Witness ==
    /\ call.pc = "createProjectVolume"
    /\ call.ctx = "cancelled"
    /\ Len(ops) = call.cancelAt + 1
    /\ ops[Len(ops)].op = "ContainerRemove"
    /\ \E c \in containers : c.by = call.n
    /\ \E v \in volumes : v.by = call.n

\* C29: the goroutine of a session whose stream has ended sends its one
\* value and ends, also when Wait has returned on the cancellation of its
\* context or is never called
C29_CopyTaskTerminates ==
    \A s \in 1..MaxExecs :
        (s \in DOMAIN execs /\ execs[s].copy = "send")
            ~> (s \in DOMAIN execs /\ execs[s].copy = "done")

\* C30: a call of Wait returns; when its context was not cancelled and no
\* inspection failed it returns the exit code of the ended exec and a nil
\* error; when the context is cancelled while it polls an exec that still
\* runs it returns too, with -1 and the error of the inspection
C30_WaitReturns ==
    \A s \in 1..MaxExecs :
        /\ (s \in DOMAIN execs /\ execs[s].wait # "none")
              ~> (s \in DOMAIN execs /\ execs[s].wait = "returned")
        /\ []((/\ s \in DOMAIN execs
               /\ execs[s].wait = "returned"
               /\ execs[s].ctx = "live"
               /\ execs[s].err # "inspect")
                 => /\ execs[s].err = "nil"
                    /\ ~execs[s].running
                    /\ execs[s].code = execs[s].exitCode)
        /\ (/\ s \in DOMAIN execs
            /\ execs[s].wait = "inspect"
            /\ execs[s].running
            /\ execs[s].ctx = "cancelled")
              ~> (/\ s \in DOMAIN execs
                  /\ execs[s].wait = "returned"
                  /\ execs[s].err = "inspect"
                  /\ execs[s].code = -1)
\* Wait has returned from its polling of an exec that still runs, with the
\* error of the inspection under the cancelled context
C30_Witness ==
    \E s \in DOMAIN execs :
        /\ execs[s].wait = "returned"
        /\ execs[s].ctx = "cancelled"
        /\ execs[s].copy = "done"
        /\ execs[s].running
        /\ execs[s].err = "inspect"
        /\ execs[s].code = -1

\* the stored objects of the config store
Store == <<users, projectGroups, linkedAccounts>>
\* C31: no two stored users have the same name; a CreateUser or an UpdateUser
\* with a name that a stored user holds returns a bad-request error (when the
\* store itself does not fail) and leaves the store as it was
C31_UserNamesUnique ==
    /\ [](\A u1, u2 \in users : u1.Name = u2.Name => u1 = u2)
    /\ [][(/\ actionRes' # actionRes
           /\ actionRes'.op \in {"CreateUser", "UpdateUser"}
           /\ \E u \in users : u.Name = actionRes'.UserName)
             => /\ actionRes'.err \in {"badrequest", "internal"}
                /\ Store' = Store]_vars
\* two users are stored, and an UpdateUser that asked for the name of the
\* other one was refused
C31_Witness ==
    /\ actionRes.op = "UpdateUser"
    /\ actionRes.err = "badrequest"
    /\ \E u1, u2 \in users :
          /\ u1 # u2
          /\ u1.ID = actionRes.UserRef
          /\ u2.Name = actionRes.UserName
          /\ u1.Name # u2.Name

\* C32: no two stored linked accounts have the same remote source and remote
\* user
C32_LinkedAccountsUnique ==
    \A la1, la2 \in linkedAccounts :
        (la1.RemoteSourceID = la2.RemoteSourceID /\ la1.RemoteUserID = la2.RemoteUserID)
            => la1 = la2

====
